---------------------------- MODULE Spec2Model ----------------------------
(***************************************************************************)
(* A state-machine model of WasmEdge's FormChecker                         *)
(* (lib/validator/formchecker.cpp): the module environment, the operand    *)
(* stack, the control stack, the local-init log and the per-instruction    *)
(* typing rules, with the driver loop of validate() unrolled into one      *)
(* step per instruction.                                                   *)
(*                                                                         *)
(* Conventions.                                                            *)
(*  - Sequences are 1-based: C++ index k is TLA+ index k+1.  Values that   *)
(*    the program stores (label depths, local indices, heights, written    *)
(*    metadata) keep their C++ (0-based) meaning.                          *)
(*  - An instruction address is its 0-based position in the instruction    *)
(*    view; pointer differences are position differences.                  *)
(*  - A uint32_t result is kept as its two's-complement representative,    *)
(*    so a wrapped subtraction shows as a negative number.                 *)
(*  - The helpers of checkInstr thread one record M through the handler:   *)
(*    vs/cs/lo/li are ValStack/CtrlStack/Locals/LocalInits, ins is the     *)
(*    instruction (whose metadata fields are written in place), err is     *)
(*    the Expect<> result ("OK" or the error code), top the popped value.  *)
(***************************************************************************)
EXTENDS Integers, Sequences, FiniteSets, TLC

VARIABLES
    ValStack,          \* FormChecker::ValStack   (std::vector<VType>)
    CtrlStack,         \* FormChecker::CtrlStack  (std::vector<CtrlFrame>)
    Locals,            \* FormChecker::Locals     (std::vector<LocalType>)
    Returns,           \* FormChecker::Returns    (std::vector<ValType>)
    LocalInits,        \* FormChecker::LocalInits (std::vector<uint32_t>)
    Types,             \* module level: function types (params, results)
    Funcs,             \* module level: type index of every function
    Tables,            \* module level: element type of every table
    Mems,              \* module level: number of memories
    Globals,           \* module level: (type, mutability) of every global
    Datas,             \* module level: data segment ids
    Elems,             \* module level: element segment types
    Refs,              \* module level: declared function references
    NumImportFuncs,    \* module level: import counter
    NumImportGlobals,  \* module level: import counter
    Instr,             \* the instruction checkInstrs looked at last, as left in the view
    NumInstrs,         \* Instrs.size() of the validate call in progress
    pc,                \* position of checkInstrs' loop in the view (0-based)
    Res,               \* "Idle", "Running", or what validate returned
    Trace,             \* the instruction view as left by the validate calls (recording specs)
    Hist               \* observations kept for the claims (never read by the program)

scratch == <<ValStack, CtrlStack, Locals, Returns, LocalInits>>
module == <<Types, Funcs, Tables, Mems, Globals, Datas, Elems, Refs,
            NumImportFuncs, NumImportGlobals>>
driver == <<Instr, NumInstrs, pc, Res, Trace>>
vars == <<scratch, module, driver, Hist>>

-----------------------------------------------------------------------------
(* Bounds of the model *)

MaxInstrs == 3        \* longest instruction view given to validate
MaxLocals == 2        \* most locals added before a validate
MaxInstrsL == 5       \* longest instruction view of the locals specification
MaxInstrsE == 2       \* longest instruction view of the lifecycle specification
MaxInstrsR == 3       \* longest instruction view of the rerun specification
MaxRuns == 2          \* most validate calls on one checker
MaxResets == 1        \* most reset calls on one checker
MaxAdds == 2          \* most module-level add calls on one checker
MaxLabel == 1         \* largest label depth an instruction carries
MaxJump == 2          \* largest decoder-filled jump distance of a block
MatchFuel == 3        \* recursion depth matchType is followed to
MaxInstrsN == 6       \* longest instruction view of the nesting specification
MaxJumpN == 4         \* largest jump distance of a block of a well-nested body
MaxInstrsT == 5       \* longest instruction view of the table specification
MaxInstrsS == 3       \* instructions of a body with a shuffle
MaxInstrsD == 4       \* instructions of a body with memory.init
MaxInstrsX == 3       \* instructions of a body that matches references
MaxAddsF == 3         \* most add_type/add_func calls on one checker
MaxTypeIdxF == 1      \* largest type index and function index tried
MaxInstrsP == 4       \* instructions of a body that leaves its straight-line code
MaxInstrsEl == 5      \* instructions of a body with the arms of an if
MaxInstrsI == 4       \* instructions of a body with an if
MaxInstrsB == 4       \* instructions of a body that branches on a reference
MaxInstrsY == 3       \* instructions of a body that names function types
MaxTypeIdxY == 3      \* largest function-type index an instruction carries
MaxInstrsQ == 5       \* instructions of a body with frames, branches and locals
MaxInstrsG == 3       \* instructions of a body that takes function references
MaxInstrsM == 2       \* longest instruction view of the memory specification

-----------------------------------------------------------------------------
(* Value types *)

OK == "OK"

I32 == [Code |-> "I32", Heap |-> "None", Idx |-> 0]
I64 == [Code |-> "I64", Heap |-> "None", Idx |-> 0]
F32 == [Code |-> "F32", Heap |-> "None", Idx |-> 0]
F64 == [Code |-> "F64", Heap |-> "None", Idx |-> 0]
V128 == [Code |-> "V128", Heap |-> "None", Idx |-> 0]
Unknown == [Code |-> "Unknown", Heap |-> "None", Idx |-> 0]
RefT(code, heap, idx) == [Code |-> code, Heap |-> heap, Idx |-> idx]
FuncRefNull == RefT("RefNull", "FuncRef", 0)
FuncRefNN == RefT("Ref", "FuncRef", 0)
ExternRefNull == RefT("RefNull", "ExternRef", 0)
RefIdxNull(i) == RefT("RefNull", "TypeIndex", i)
RefIdxNN(i) == RefT("Ref", "TypeIndex", i)

isRefType(v) == v.Code \in {"Ref", "RefNull"}
isNullableRefType(v) == v.Code = "RefNull"
isDefaultable(v) == ~(v.Code = "Ref")
unreachableVType == Unknown

FnType(p, r) == [first |-> p, second |-> r]

(* The one element of a singleton set. *)
Only(S) == CHOOSE x \in S : TRUE

Back(s) == s[Len(s)]
PopBack(s) == SubSeq(s, 1, Len(s) - 1)

RECURSIVE matchTypeR(_, _, _, _)
RECURSIVE matchTypesR(_, _, _, _, _)
(* matchType over the type table T, followed to depth fuel: "T", "F", or   *)
(* "Deep" when the recursion through type indices is deeper than fuel.     *)
matchTypeR(T, Exp, Got, fuel) ==
    IF ~isRefType(Exp) /\ ~isRefType(Got) /\ Exp.Code = Got.Code THEN "T"
    ELSE IF isRefType(Exp) /\ isRefType(Got) THEN
        IF ~isNullableRefType(Exp) /\ isNullableRefType(Got) THEN "F"
        ELSE IF Exp.Heap = Got.Heap /\ Exp.Heap # "TypeIndex" THEN "T"
        ELSE IF Exp.Heap = "FuncRef" /\ Got.Heap = "TypeIndex" THEN "T"
        ELSE IF Exp.Heap = "TypeIndex" /\ Got.Heap = "TypeIndex" THEN
            IF fuel = 0 THEN "Deep"
            ELSE LET P == matchTypesR(T, T[Exp.Idx + 1].first,
                                      T[Got.Idx + 1].first, fuel - 1, 1)
                 IN IF P # "T" THEN P
                    ELSE matchTypesR(T, T[Exp.Idx + 1].second,
                                     T[Got.Idx + 1].second, fuel - 1, 1)
        ELSE "F"
    ELSE "F"

matchTypesR(T, Exp, Got, fuel, I) ==
    IF Len(Exp) # Len(Got) THEN "F"
    ELSE IF I > Len(Exp) THEN "T"
    ELSE LET R == matchTypeR(T, Exp[I], Got[I], fuel)
         IN IF R # "T" THEN R ELSE matchTypesR(T, Exp, Got, fuel, I + 1)

matchType(Exp, Got) == matchTypeR(Types, Exp, Got, MatchFuel) = "T"
matchTypes(Exp, Got) == matchTypesR(Types, Exp, Got, MatchFuel, 1) = "T"

-----------------------------------------------------------------------------
(* Operand stack and control stack *)

NoFrame == [StartTypes |-> <<>>, EndTypes |-> <<>>, Jump |-> 0, Height |-> 0,
            InitedLocal |-> 0, IsUnreachable |-> FALSE, Code |-> "None",
            Fault |-> FALSE]

(* CtrlStack.back(): on an empty vector the read is undefined; the frame   *)
(* seen is then M.ub, an arbitrary frame chosen by the step.               *)
BackFrame(M) == IF Len(M.cs) > 0 THEN Back(M.cs) ELSE M.ub

Fail(M, code) == [M EXCEPT !.err = code]

ReadBack(M) ==
    IF Len(M.cs) > 0 THEN M
    ELSE IF M.ub.Fault THEN [M EXCEPT !.ubRead = TRUE, !.err = "Crash"]
    ELSE [M EXCEPT !.ubRead = TRUE]

pushType(M, V) == [M EXCEPT !.vs = Append(M.vs, V)]

RECURSIVE pushTypesFrom(_, _, _)
pushTypesFrom(M, Input, I) ==
    IF I > Len(Input) THEN M
    ELSE pushTypesFrom(pushType(M, Input[I]), Input, I + 1)

pushTypes(M, Input) == pushTypesFrom(M, Input, 1)

(* Mutants of popType: no floor check; a pop from the floor of an           *)
(* unreachable frame takes the operand below; a failing pop still pops.     *)
popType_noFloor(M) ==
    IF M.err # OK THEN M
    ELSE IF Len(M.vs) = 0 THEN Fail(M, "TypeCheckFailed")
    ELSE [M EXCEPT !.top = Back(M.vs), !.vs = PopBack(M.vs)]

popType_unreachablePops(M) ==
    IF M.err # OK THEN M
    ELSE LET R == ReadBack(M)
             F == BackFrame(M)
         IN IF R.err # OK THEN R
            ELSE IF Len(R.vs) = F.Height /\ ~F.IsUnreachable
                 THEN Fail(R, "TypeCheckFailed")
            ELSE IF Len(R.vs) = 0 THEN [R EXCEPT !.top = unreachableVType]
            ELSE [R EXCEPT !.top = Back(R.vs), !.vs = PopBack(R.vs)]

popType_failPops(M) ==
    IF M.err # OK THEN M
    ELSE LET R == ReadBack(M)
             F == BackFrame(M)
         IN IF R.err # OK THEN R
            ELSE IF Len(R.vs) = F.Height THEN
                IF F.IsUnreachable THEN [R EXCEPT !.top = unreachableVType]
                ELSE [Fail(R, "TypeCheckFailed") EXCEPT !.vs = PopBack(R.vs)]
            ELSE IF Len(R.vs) = 0 THEN Fail(R, "Crash")
            ELSE [R EXCEPT !.top = Back(R.vs), !.vs = PopBack(R.vs)]

popType(M) ==
    IF M.err # OK THEN M
    ELSE LET R == ReadBack(M)
             F == BackFrame(M)
         IN IF R.err # OK THEN R
            ELSE IF Len(R.vs) = F.Height THEN
                IF F.IsUnreachable THEN [R EXCEPT !.top = unreachableVType]
                ELSE Fail(R, "TypeCheckFailed")
            ELSE IF Len(R.vs) = 0 THEN Fail(R, "Crash")
            ELSE [R EXCEPT !.top = Back(R.vs), !.vs = PopBack(R.vs)]

popTypeE(M, E) ==
    Only({IF R.err # OK THEN R
          ELSE IF R.top = unreachableVType THEN [R EXCEPT !.top = E]
          ELSE IF matchTypeR(Types, E, R.top, MatchFuel) = "Deep"
               THEN Fail(R, "StackOverflow")
          ELSE IF ~matchType(E, R.top) THEN Fail(R, "TypeCheckFailed")
          ELSE R : R \in {popType(M)}})

RECURSIVE popTypesFrom(_, _, _)
popTypesFrom(M, Input, I) ==
    IF I < 1 \/ M.err # OK THEN M
    ELSE popTypesFrom(popTypeE(M, Input[I]), Input, I - 1)

popTypes(M, Input) == popTypesFrom(M, Input, Len(Input))

(* Mutant of pushCtrl: the new frame takes over the unreachable flag of    *)
(* the frame it is opened in.                                              *)
pushCtrl_inherits(M, In, Out, Jump, Code) ==
    pushTypes([M EXCEPT !.cs = Append(M.cs,
                  [StartTypes |-> In, EndTypes |-> Out, Jump |-> Jump,
                   Height |-> Len(M.vs), InitedLocal |-> Len(M.li),
                   IsUnreachable |-> Len(M.cs) > 0 /\ Back(M.cs).IsUnreachable,
                   Code |-> Code])], In)

pushCtrl(M, In, Out, Jump, Code) ==
    pushTypes([M EXCEPT !.cs = Append(M.cs,
                  [StartTypes |-> In, EndTypes |-> Out, Jump |-> Jump,
                   Height |-> Len(M.vs), InitedLocal |-> Len(M.li),
                   IsUnreachable |-> FALSE, Code |-> Code])], In)

(* Mutant of RevertInits: nothing is reverted. *)
RevertInits_none(lo, li, from) == lo

(* Locals with every index of LocalInits[from..] reset to uninitialised. *)
RevertInits(lo, li, from) ==
    [k \in 1..Len(lo) |->
        IF \E I \in (from + 1)..Len(li) : li[I] + 1 = k
        THEN [lo[k] EXCEPT !.IsInit = FALSE] ELSE lo[k]]

(* Mutant of popCtrl: the operand stack is not compared with the height. *)
popCtrl_anyHeight(M) ==
    IF M.err # OK THEN M
    ELSE IF Len(M.cs) = 0 THEN Fail(M, "TypeCheckFailed")
    ELSE LET F == Back(M.cs)
         IN Only({IF R.err # OK THEN R
                  ELSE [R EXCEPT !.lo = RevertInits(R.lo, R.li, F.InitedLocal),
                                 !.li = SubSeq(R.li, 1, F.InitedLocal),
                                 !.cs = PopBack(R.cs),
                                 !.frame = F] : R \in {popTypes(M, F.EndTypes)}})

(* On success the popped frame is left in M.frame. *)
popCtrl(M) ==
    IF M.err # OK THEN M
    ELSE IF Len(M.cs) = 0 THEN Fail(M, "TypeCheckFailed")
    ELSE LET F == Back(M.cs)
         IN Only({IF R.err # OK THEN R
                  ELSE IF Len(R.vs) # F.Height THEN Fail(R, "TypeCheckFailed")
                  ELSE [R EXCEPT !.lo = RevertInits(R.lo, R.li, F.InitedLocal),
                                 !.li = SubSeq(R.li, 1, F.InitedLocal),
                                 !.cs = PopBack(R.cs),
                                 !.frame = F] : R \in {popTypes(M, F.EndTypes)}})

getLabelTypes(F) == IF F.Code = "Loop" THEN F.StartTypes ELSE F.EndTypes

RECURSIVE unreachableLoop(_)
unreachableLoop(M) ==
    IF M.err # OK THEN M
    ELSE IF Len(M.vs) > BackFrame(M).Height THEN unreachableLoop(popType(M))
    ELSE M

(* Mutant of unreachable: the operand stack is emptied, not cut at the     *)
(* frame's Height.                                                         *)
unreachable_toBottom(M) ==
    IF M.err # OK THEN M
    ELSE Only({IF R.err # OK THEN R
               ELSE IF Len(R.cs) = 0 THEN R
               ELSE [R EXCEPT !.vs = <<>>,
                              !.cs[Len(R.cs)].IsUnreachable = TRUE]
               : R \in {unreachableLoop(ReadBack(M))}})

unreachable(M) ==
    IF M.err # OK THEN M
    ELSE Only({IF R.err # OK THEN R
               ELSE IF Len(R.cs) = 0 THEN R
               ELSE [R EXCEPT !.cs[Len(R.cs)].IsUnreachable = TRUE]
               : R \in {unreachableLoop(ReadBack(M))}})

StackTrans(M, Take, Put) ==
    Only({IF R.err # OK THEN R ELSE pushTypes(R, Put) : R \in {popTypes(M, Take)}})

StackPopAny(M) == popType(M)

-----------------------------------------------------------------------------
(* Instructions: the decoder's immediates and the fields the checker writes *)

BTEmpty == [Kind |-> "Empty", ValType |-> I32, Idx |-> 0]
BTVal(v) == [Kind |-> "ValType", ValType |-> v, Idx |-> 0]
BTIdx(i) == [Kind |-> "TypeIndex", ValType |-> I32, Idx |-> i]

JumpDesc(n) == [TargetIndex |-> n, StackEraseBegin |-> 0, StackEraseEnd |-> 0,
                PCOffset |-> 0]

MkInstr(op) ==
    [Op |-> op, BlockType |-> BTEmpty, TargetIndex |-> 0, SourceIndex |-> 0,
     JumpEnd |-> 0, JumpElse |-> 0, LabelList |-> <<>>, ValType |-> I32,
     Jump |-> JumpDesc(0), StackOffset |-> 0, MemoryAlign |-> 0,
     MemoryLane |-> 0, Num |-> [i \in 1..16 |-> 0]]

NoInstr == MkInstr("None")

(* static_cast<uint32_t>: the value's two's-complement representative. *)
U32(x) == x

validateVT(VT) ==
    IF isRefType(VT) /\ VT.Heap = "TypeIndex" /\ VT.Idx >= Len(Types)
    THEN "InvalidFuncTypeIdx" ELSE OK

checkBlockType(BType) ==
    IF BType.Kind = "Empty" THEN [err |-> OK, T1 |-> <<>>, T2 |-> <<>>]
    ELSE IF BType.Kind = "ValType" THEN
        IF validateVT(BType.ValType) # OK
        THEN [err |-> validateVT(BType.ValType), T1 |-> <<>>, T2 |-> <<>>]
        ELSE [err |-> OK, T1 |-> <<>>, T2 |-> <<BType.ValType>>]
    ELSE IF BType.Idx >= Len(Types)
        THEN [err |-> "InvalidFuncTypeIdx", T1 |-> <<>>, T2 |-> <<>>]
        ELSE [err |-> OK, T1 |-> Types[BType.Idx + 1].first,
              T2 |-> Types[BType.Idx + 1].second]

(* Mutant of checkCtrlStackDepth: a label beyond the control stack is taken *)
(* for the outermost frame.                                                 *)
checkCtrlStackDepth_clamps(M, N) == IF N >= Len(M.cs) THEN 1 ELSE Len(M.cs) - N

(* The 1-based position in cs of the frame N labels down, or 0 (InvalidLabelIdx). *)
checkCtrlStackDepth(M, N) == IF N >= Len(M.cs) THEN 0 ELSE Len(M.cs) - N

checkTypesMatching(M, Exp, Got) ==
    IF matchTypesR(Types, Exp, Got, MatchFuel, 1) = "Deep"
    THEN Fail(M, "StackOverflow")
    ELSE IF ~matchTypes(Exp, Got) THEN Fail(M, "TypeCheckFailed") ELSE M

(* Mutant of chkBlock: a loop frame is anchored at its end like a block. *)
chkBlock_anchorEnd(M, at) ==
    LET I == M.ins
        BT == checkBlockType(I.BlockType)
        From == at + I.JumpEnd
    IN IF BT.err # OK THEN Fail(M, BT.err)
       ELSE Only({IF M2.err # OK THEN M2
                  ELSE IF I.Op = "If" /\ I.JumpElse = I.JumpEnd
                       THEN checkTypesMatching(
                                pushCtrl(M2, BT.T1, BT.T2, From, I.Op),
                                BT.T2, BT.T1)
                  ELSE pushCtrl(M2, BT.T1, BT.T2, From, I.Op)
                  : M2 \in {popTypes(IF I.Op = "If" THEN popTypeE(M, I32) ELSE M,
                                     BT.T1)}})

chkBlock(M, at) ==
    LET I == M.ins
        BT == checkBlockType(I.BlockType)
        From == IF I.Op = "Loop" THEN at ELSE at + I.JumpEnd
    IN IF BT.err # OK THEN Fail(M, BT.err)
       ELSE Only({IF M2.err # OK THEN M2
                  ELSE IF I.Op = "If" /\ I.JumpElse = I.JumpEnd
                       THEN checkTypesMatching(
                                pushCtrl(M2, BT.T1, BT.T2, From, I.Op),
                                BT.T2, BT.T1)
                  ELSE pushCtrl(M2, BT.T1, BT.T2, From, I.Op)
                  : M2 \in {popTypes(IF I.Op = "If" THEN popTypeE(M, I32) ELSE M,
                                     BT.T1)}})

(* Mutant of chkElse: the popped frame itself is pushed back as the else   *)
(* frame, its unreachable flag with it.                                    *)
chkElse_keepsFrame(M) ==
    Only({IF R.err # OK THEN R
          ELSE pushTypes([R EXCEPT !.cs = Append(R.cs,
                             [R.frame EXCEPT !.Code = M.ins.Op])],
                         R.frame.StartTypes) : R \in {popCtrl(M)}})

chkElse(M) ==
    Only({IF R.err # OK THEN R
          ELSE pushCtrl(R, R.frame.StartTypes, R.frame.EndTypes, R.frame.Jump,
                        M.ins.Op) : R \in {popCtrl(M)}})

(* Mutant of chkEnd: the frame's results are not pushed back. *)
chkEnd_noPush(M) == popCtrl(M)

chkEnd(M) ==
    Only({IF R.err # OK THEN R ELSE pushTypes(R, R.frame.EndTypes)
          : R \in {popCtrl(M)}})

(* Mutant of JumpMeta: the arity is left out of the erased range's begin. *)
JumpMeta_noArity(M, D, Arity, at) ==
    [StackEraseBegin |-> U32(Len(M.vs) - M.cs[D].Height),
     StackEraseEnd |-> U32(Arity),
     PCOffset |-> M.cs[D].Jump - at]

(* The branch metadata of a jump to frame D, after the label types were popped. *)
JumpMeta(M, D, Arity, at) ==
    [StackEraseBegin |-> U32(U32(Len(M.vs) - M.cs[D].Height) + Arity),
     StackEraseEnd |-> U32(Arity),
     PCOffset |-> M.cs[D].Jump - at]

WriteJump(M, D, Arity, at) ==
    LET J == JumpMeta(M, D, Arity, at)
    IN [M EXCEPT !.ins.Jump.StackEraseBegin = J.StackEraseBegin,
                 !.ins.Jump.StackEraseEnd = J.StackEraseEnd,
                 !.ins.Jump.PCOffset = J.PCOffset]

chkBr(M, at) ==
    LET D == checkCtrlStackDepth(M, M.ins.Jump.TargetIndex)
        NTypes == getLabelTypes(M.cs[D])
    IN IF D = 0 THEN Fail(M, "InvalidLabelIdx")
       ELSE Only({IF R.err # OK THEN R
                  ELSE unreachable(WriteJump(R, D, Len(NTypes), at))
                  : R \in {popTypes(M, NTypes)}})

chkBrIf(M, at) ==
    LET D == checkCtrlStackDepth(M, M.ins.Jump.TargetIndex)
        NTypes == getLabelTypes(M.cs[D])
    IN IF D = 0 THEN Fail(M, "InvalidLabelIdx")
       ELSE Only({IF R.err # OK THEN R
                  ELSE pushTypes(WriteJump(R, D, Len(NTypes), at), NTypes)
                  : R \in {popTypes(popTypeE(M, I32), NTypes)}})

(* The pops of one intermediate br_table label, from Idx down: the popped   *)
(* types are collected in M.buf.                                            *)
RECURSIVE brTablePops(_, _, _)
brTablePops(M, NTypes, IdxN) ==
    IF IdxN < 1 \/ M.err # OK THEN M
    ELSE Only({IF R.err # OK THEN R
               ELSE brTablePops(
                      [R EXCEPT !.buf[IdxN] =
                          IF Back(R.cs).IsUnreachable THEN unreachableVType
                          ELSE R.top],
                      NTypes, IdxN - 1) : R \in {popTypeE(M, NTypes[IdxN])}})

(* Mutant of brTableLabels: the arities of the labels are not compared. *)
RECURSIVE brTableLabels_noArity(_, _, _, _)
brTableLabels_noArity(M, MTypes, LabelIdx, at) ==
    IF M.err # OK \/ LabelIdx >= Len(M.ins.LabelList) THEN M
    ELSE LET L == M.ins.LabelList[LabelIdx].TargetIndex
             N == checkCtrlStackDepth(M, L)
             NTypes == getLabelTypes(M.cs[N])
         IN IF N = 0 THEN Fail(M, "InvalidLabelIdx")
            ELSE Only({
                LET J == JumpMeta(R, N, Len(NTypes), at)
                    W == [R EXCEPT
                            !.ins.LabelList[LabelIdx].StackEraseBegin = J.StackEraseBegin,
                            !.ins.LabelList[LabelIdx].StackEraseEnd = J.StackEraseEnd,
                            !.ins.LabelList[LabelIdx].PCOffset = J.PCOffset]
                IN IF R.err # OK THEN R
                   ELSE brTableLabels_noArity(pushTypes(W, R.buf), MTypes,
                                              LabelIdx + 1, at)
                : R \in {brTablePops(
                            [M EXCEPT !.buf = [k \in 1..Len(NTypes) |-> Unknown]],
                            NTypes, Len(NTypes))}})

RECURSIVE brTableLabels(_, _, _, _)
brTableLabels(M, MTypes, LabelIdx, at) ==
    IF M.err # OK \/ LabelIdx >= Len(M.ins.LabelList) THEN M
    ELSE LET L == M.ins.LabelList[LabelIdx].TargetIndex
             N == checkCtrlStackDepth(M, L)
             NTypes == getLabelTypes(M.cs[N])
         IN IF N = 0 THEN Fail(M, "InvalidLabelIdx")
            ELSE IF Len(MTypes) # Len(NTypes)
                 THEN [checkTypesMatching(M, MTypes, NTypes) EXCEPT !.done = TRUE]
            ELSE Only({
                LET J == JumpMeta(R, N, Len(NTypes), at)
                    W == [R EXCEPT
                            !.ins.LabelList[LabelIdx].StackEraseBegin = J.StackEraseBegin,
                            !.ins.LabelList[LabelIdx].StackEraseEnd = J.StackEraseEnd,
                            !.ins.LabelList[LabelIdx].PCOffset = J.PCOffset]
                IN IF R.err # OK THEN R
                   ELSE brTableLabels(pushTypes(W, R.buf), MTypes, LabelIdx + 1, at)
                : R \in {brTablePops(
                            [M EXCEPT !.buf = [k \in 1..Len(NTypes) |-> Unknown]],
                            NTypes, Len(NTypes))}})

chkBrTable(M, at) ==
    LET Last == Len(M.ins.LabelList)
    IN Only({
        LET D == checkCtrlStackDepth(M1, M.ins.LabelList[Last].TargetIndex)
            MTypes == getLabelTypes(M1.cs[D])
        IN IF M1.err # OK THEN M1
           ELSE IF D = 0 THEN Fail(M1, "InvalidLabelIdx")
           ELSE Only({
                IF M2.err # OK \/ M2.done THEN M2
                ELSE Only({
                    LET J == JumpMeta(R, D, Len(MTypes), at)
                        W == [R EXCEPT
                                !.ins.LabelList[Last].StackEraseBegin = J.StackEraseBegin,
                                !.ins.LabelList[Last].StackEraseEnd = J.StackEraseEnd,
                                !.ins.LabelList[Last].PCOffset = J.PCOffset]
                    IN IF R.err # OK THEN R ELSE unreachable(W)
                    : R \in {popTypes(M2, MTypes)}})
                : M2 \in {brTableLabels(M1, MTypes, 1, at)}})
        : M1 \in {popTypeE(M, I32)}})

(* Mutant of chkBrOnNull: the popped reference is pushed back as it was. *)
chkBrOnNull_keepsNull(M, at) ==
    LET D == checkCtrlStackDepth(M, M.ins.TargetIndex)
        NTypes == getLabelTypes(M.cs[D])
    IN IF D = 0 THEN Fail(M, "InvalidLabelIdx")
       ELSE Only({
            IF T.err # OK THEN T
            ELSE IF T.top = unreachableVType THEN T
            ELSE IF ~isRefType(T.top) THEN Fail(T, "InvalidBrRefType")
            ELSE Only({
                IF R.err # OK THEN R
                ELSE pushType(pushTypes(WriteJump(R, D, Len(NTypes), at), NTypes),
                              T.top)
                : R \in {popTypes(T, NTypes)}})
            : T \in {popType(M)}})

chkBrOnNull(M, at) ==
    LET D == checkCtrlStackDepth(M, M.ins.TargetIndex)
        NTypes == getLabelTypes(M.cs[D])
    IN IF D = 0 THEN Fail(M, "InvalidLabelIdx")
       ELSE Only({
            IF T.err # OK THEN T
            ELSE IF T.top = unreachableVType THEN T
            ELSE IF ~isRefType(T.top) THEN Fail(T, "InvalidBrRefType")
            ELSE Only({
                IF R.err # OK THEN R
                ELSE pushType(pushTypes(WriteJump(R, D, Len(NTypes), at), NTypes),
                              RefT("Ref", T.top.Heap, T.top.Idx))
                : R \in {popTypes(T, NTypes)}})
            : T \in {popType(M)}})

(* Mutant of chkBrOnNonNull: the reference is pushed back with the other   *)
(* label types.                                                            *)
chkBrOnNonNull_keepsRef(M, at) ==
    LET D == checkCtrlStackDepth(M, M.ins.TargetIndex)
        LabelTypes == getLabelTypes(M.cs[D])
        RType == Back(LabelTypes)
        NTypes == PopBack(LabelTypes)
    IN IF D = 0 THEN Fail(M, "InvalidLabelIdx")
       ELSE IF Len(LabelTypes) = 0 THEN Fail(M, "InvalidBrRefType")
       ELSE IF ~isRefType(RType) \/ isNullableRefType(RType)
            THEN Fail(M, "InvalidBrRefType")
       ELSE Only({
            IF R.err # OK THEN Fail(R, "InvalidBrRefType")
            ELSE pushTypes(WriteJump(R, D, Len(NTypes) + 1, at), LabelTypes)
            : R \in {popTypes(popTypeE(M, RefT("RefNull", RType.Heap, RType.Idx)),
                              NTypes)}})

chkBrOnNonNull(M, at) ==
    LET D == checkCtrlStackDepth(M, M.ins.TargetIndex)
        LabelTypes == getLabelTypes(M.cs[D])
        RType == Back(LabelTypes)
        NTypes == PopBack(LabelTypes)
    IN IF D = 0 THEN Fail(M, "InvalidLabelIdx")
       ELSE IF Len(LabelTypes) = 0 THEN Fail(M, "InvalidBrRefType")
       ELSE IF ~isRefType(RType) \/ isNullableRefType(RType)
            THEN Fail(M, "InvalidBrRefType")
       ELSE Only({
            IF R.err # OK THEN Fail(R, "InvalidBrRefType")
            ELSE pushTypes(WriteJump(R, D, Len(NTypes) + 1, at), NTypes)
            : R \in {popTypes(popTypeE(M, RefT("RefNull", RType.Heap, RType.Idx)),
                              NTypes)}})

chkReturn(M) == unreachable(popTypes(M, Returns))

chkCall(M) ==
    LET N == M.ins.TargetIndex
    IN IF N >= Len(Funcs) THEN Fail(M, "InvalidFuncIdx")
       ELSE IF Funcs[N + 1] >= Len(Types) THEN Fail(M, "Crash")
       ELSE StackTrans(M, Types[Funcs[N + 1] + 1].first,
                       Types[Funcs[N + 1] + 1].second)

chkRefNull(M) ==
    IF validateVT(M.ins.ValType) # OK THEN Fail(M, validateVT(M.ins.ValType))
    ELSE StackTrans(M, <<>>, <<M.ins.ValType>>)

chkRefFunc(M) ==
    LET FuncIdx == M.ins.TargetIndex
    IN IF FuncIdx \notin Refs THEN Fail(M, "InvalidRefIdx")
       ELSE IF ~(FuncIdx < Len(Funcs)) THEN Fail(M, "AssumeFailed")
       ELSE IF ~(Funcs[FuncIdx + 1] < Len(Types)) THEN Fail(M, "AssumeFailed")
       ELSE StackTrans(M, <<>>, <<RefIdxNN(Funcs[FuncIdx + 1])>>)

chkRefAsNonNull(M) ==
    Only({IF T.err # OK THEN T
          ELSE IF T.top = unreachableVType THEN pushType(T, unreachableVType)
          ELSE IF ~isRefType(T.top) THEN Fail(T, "TypeCheckFailed")
          ELSE StackTrans(T, <<>>, <<RefT("Ref", T.top.Heap, T.top.Idx)>>)
          : T \in {popType(M)}})

(* Mutant of chkLocal: the offset is counted from the local's own slot. *)
chkLocal_offByOne(M) ==
    LET I == M.ins
        Idx == I.TargetIndex
        TExpect == M.lo[Idx + 1]
        M1 == [M EXCEPT !.ins.StackOffset = U32(Len(M.vs) + (Len(M.lo) - Idx) - 1)]
        M2 == IF ~TExpect.IsInit
              THEN [M1 EXCEPT !.lo[Idx + 1].IsInit = TRUE,
                              !.li = Append(M1.li, Idx)]
              ELSE M1
    IN IF Idx >= Len(M.lo) THEN Fail(M, "InvalidLocalIdx")
       ELSE IF I.Op = "Local__get" THEN
            IF ~TExpect.IsInit THEN Fail(M1, "InvalidUninitLocal")
            ELSE StackTrans(M1, <<>>, <<TExpect.VType>>)
       ELSE IF I.Op = "Local__set" THEN StackTrans(M2, <<TExpect.VType>>, <<>>)
       ELSE StackTrans(M2, <<TExpect.VType>>, <<TExpect.VType>>)

chkLocal(M) ==
    LET I == M.ins
        Idx == I.TargetIndex
        TExpect == M.lo[Idx + 1]
        M1 == [M EXCEPT !.ins.StackOffset = U32(Len(M.vs) + (Len(M.lo) - Idx))]
        M2 == IF ~TExpect.IsInit
              THEN [M1 EXCEPT !.lo[Idx + 1].IsInit = TRUE,
                              !.li = Append(M1.li, Idx)]
              ELSE M1
    IN IF Idx >= Len(M.lo) THEN Fail(M, "InvalidLocalIdx")
       ELSE IF I.Op = "Local__get" THEN
            IF ~TExpect.IsInit THEN Fail(M1, "InvalidUninitLocal")
            ELSE StackTrans(M1, <<>>, <<TExpect.VType>>)
       ELSE IF I.Op = "Local__set" THEN StackTrans(M2, <<TExpect.VType>>, <<>>)
       ELSE StackTrans(M2, <<TExpect.VType>>, <<TExpect.VType>>)

(* x >> n on unsigned integers. *)
RECURSIVE Shr(_, _)
Shr(x, n) == IF n = 0 THEN x ELSE Shr(x \div 2, n - 1)

(* Mutant of checkLaneAndTrans: a lane index equal to the bound passes. *)
checkLaneAndTrans_inclusive(M, N, Take, Put) ==
    IF M.ins.MemoryLane > N THEN Fail(M, "InvalidLaneIdx")
    ELSE StackTrans(M, Take, Put)

checkLaneAndTrans(M, N, Take, Put) ==
    IF M.ins.MemoryLane >= N THEN Fail(M, "InvalidLaneIdx")
    ELSE StackTrans(M, Take, Put)

(* Mutant of checkAlignAndTrans: the exponent is not capped at 31 and the  *)
(* shift count wraps at the width of a 32-bit register.                    *)
checkAlignAndTrans_wraps(M, N, Take, Put, CheckLane) ==
    IF M.ins.TargetIndex >= Mems THEN Fail(M, "InvalidMemoryIdx")
    ELSE IF Shr(Shr(N, 3), M.ins.MemoryAlign % 32) = 0
         THEN Fail(M, "InvalidAlignment")
    ELSE IF CheckLane THEN checkLaneAndTrans(M, 128 \div N, Take, Put)
    ELSE StackTrans(M, Take, Put)

(* (1UL << align) > (N >> 3) is evaluated only for align <= 31, where the  *)
(* unsigned long holds the shifted bit: it says that N >> 3 has no bit at  *)
(* or above position align, that is (N >> 3) >> align = 0.                 *)
checkAlignAndTrans(M, N, Take, Put, CheckLane) ==
    IF M.ins.TargetIndex >= Mems THEN Fail(M, "InvalidMemoryIdx")
    ELSE IF M.ins.MemoryAlign > 31 \/ Shr(Shr(N, 3), M.ins.MemoryAlign) = 0
         THEN Fail(M, "InvalidAlignment")
    ELSE IF CheckLane THEN checkLaneAndTrans(M, 128 \div N, Take, Put)
    ELSE StackTrans(M, Take, Put)

Sig(n, take, put, lane) == [N |-> n, Take |-> take, Put |-> put, Lane |-> lane]

(* The calls of checkAlignAndTrans in checkInstr: access width, operands   *)
(* taken and put, and whether the lane index is checked.                   *)
MemSig(Op) ==
    CASE Op = "I32__load" -> Sig(32, <<I32>>, <<I32>>, FALSE)
      [] Op = "I64__load" -> Sig(64, <<I32>>, <<I64>>, FALSE)
      [] Op = "F32__load" -> Sig(32, <<I32>>, <<F32>>, FALSE)
      [] Op = "F64__load" -> Sig(64, <<I32>>, <<F64>>, FALSE)
      [] Op \in {"I32__load8_s", "I32__load8_u"} -> Sig(8, <<I32>>, <<I32>>, FALSE)
      [] Op \in {"I32__load16_s", "I32__load16_u"} -> Sig(16, <<I32>>, <<I32>>, FALSE)
      [] Op \in {"I64__load8_s", "I64__load8_u"} -> Sig(8, <<I32>>, <<I64>>, FALSE)
      [] Op \in {"I64__load16_s", "I64__load16_u"} -> Sig(16, <<I32>>, <<I64>>, FALSE)
      [] Op \in {"I64__load32_s", "I64__load32_u"} -> Sig(32, <<I32>>, <<I64>>, FALSE)
      [] Op = "I32__store" -> Sig(32, <<I32, I32>>, <<>>, FALSE)
      [] Op = "I64__store" -> Sig(64, <<I32, I64>>, <<>>, FALSE)
      [] Op = "F32__store" -> Sig(32, <<I32, F32>>, <<>>, FALSE)
      [] Op = "F64__store" -> Sig(64, <<I32, F64>>, <<>>, FALSE)
      [] Op = "I32__store8" -> Sig(8, <<I32, I32>>, <<>>, FALSE)
      [] Op = "I32__store16" -> Sig(16, <<I32, I32>>, <<>>, FALSE)
      [] Op = "I64__store8" -> Sig(8, <<I32, I64>>, <<>>, FALSE)
      [] Op = "I64__store16" -> Sig(16, <<I32, I64>>, <<>>, FALSE)
      [] Op = "I64__store32" -> Sig(32, <<I32, I64>>, <<>>, FALSE)
      [] Op = "V128__load" -> Sig(128, <<I32>>, <<V128>>, FALSE)
      [] Op \in {"V128__load8x8_s", "V128__load8x8_u", "V128__load16x4_s",
                 "V128__load16x4_u", "V128__load32x2_s", "V128__load32x2_u",
                 "V128__load64_splat", "V128__load64_zero"}
            -> Sig(64, <<I32>>, <<V128>>, FALSE)
      [] Op = "V128__load8_splat" -> Sig(8, <<I32>>, <<V128>>, FALSE)
      [] Op = "V128__load16_splat" -> Sig(16, <<I32>>, <<V128>>, FALSE)
      [] Op \in {"V128__load32_splat", "V128__load32_zero"}
            -> Sig(32, <<I32>>, <<V128>>, FALSE)
      [] Op = "V128__store" -> Sig(128, <<I32, V128>>, <<>>, FALSE)
      [] Op = "V128__load8_lane" -> Sig(8, <<I32, V128>>, <<V128>>, TRUE)
      [] Op = "V128__load16_lane" -> Sig(16, <<I32, V128>>, <<V128>>, TRUE)
      [] Op = "V128__load32_lane" -> Sig(32, <<I32, V128>>, <<V128>>, TRUE)
      [] Op = "V128__load64_lane" -> Sig(64, <<I32, V128>>, <<V128>>, TRUE)
      [] Op = "V128__store8_lane" -> Sig(8, <<I32, V128>>, <<>>, TRUE)
      [] Op = "V128__store16_lane" -> Sig(16, <<I32, V128>>, <<>>, TRUE)
      [] Op = "V128__store32_lane" -> Sig(32, <<I32, V128>>, <<>>, TRUE)
      [] Op = "V128__store64_lane" -> Sig(64, <<I32, V128>>, <<>>, TRUE)
      [] Op = "Memory__atomic__notify" -> Sig(32, <<I32, I32>>, <<I32>>, FALSE)
      [] Op = "Memory__atomic__wait32" -> Sig(32, <<I32, I32, I64>>, <<I32>>, FALSE)
      [] Op = "Memory__atomic__wait64" -> Sig(64, <<I32, I64, I64>>, <<I32>>, FALSE)
      [] Op = "I32__atomic__load" -> Sig(32, <<I32>>, <<I32>>, FALSE)
      [] Op = "I64__atomic__load" -> Sig(64, <<I32>>, <<I64>>, FALSE)
      [] Op = "I32__atomic__load8_u" -> Sig(8, <<I32>>, <<I32>>, FALSE)
      [] Op = "I32__atomic__load16_u" -> Sig(16, <<I32>>, <<I32>>, FALSE)
      [] Op = "I64__atomic__load8_u" -> Sig(8, <<I32>>, <<I64>>, FALSE)
      [] Op = "I64__atomic__load16_u" -> Sig(16, <<I32>>, <<I64>>, FALSE)
      [] Op = "I64__atomic__load32_u" -> Sig(32, <<I32>>, <<I64>>, FALSE)
      [] Op = "I32__atomic__store" -> Sig(32, <<I32, I32>>, <<>>, FALSE)
      [] Op = "I64__atomic__store" -> Sig(64, <<I32, I64>>, <<>>, FALSE)
      [] Op = "I32__atomic__rmw__add" -> Sig(32, <<I32, I32>>, <<I32>>, FALSE)
      [] Op = "I64__atomic__rmw__add" -> Sig(64, <<I32, I64>>, <<I64>>, FALSE)
      [] Op = "I32__atomic__rmw__cmpxchg" -> Sig(32, <<I32, I32, I32>>, <<I32>>, FALSE)
      [] Op = "I64__atomic__rmw__cmpxchg" -> Sig(64, <<I32, I64, I64>>, <<I64>>, FALSE)

MemOps ==
    {"I32__load", "I64__load", "F32__load", "F64__load",
     "I32__load8_s", "I32__load8_u", "I32__load16_s", "I32__load16_u",
     "I64__load8_s", "I64__load8_u", "I64__load16_s", "I64__load16_u",
     "I64__load32_s", "I64__load32_u",
     "I32__store", "I64__store", "F32__store", "F64__store",
     "I32__store8", "I32__store16", "I64__store8", "I64__store16", "I64__store32",
     "V128__load", "V128__load8x8_s", "V128__load8x8_u", "V128__load16x4_s",
     "V128__load16x4_u", "V128__load32x2_s", "V128__load32x2_u",
     "V128__load64_splat", "V128__load64_zero", "V128__load8_splat",
     "V128__load16_splat", "V128__load32_splat", "V128__load32_zero",
     "V128__store",
     "V128__load8_lane", "V128__load16_lane", "V128__load32_lane",
     "V128__load64_lane", "V128__store8_lane", "V128__store16_lane",
     "V128__store32_lane", "V128__store64_lane",
     "Memory__atomic__notify", "Memory__atomic__wait32", "Memory__atomic__wait64",
     "I32__atomic__load", "I64__atomic__load", "I32__atomic__load8_u",
     "I32__atomic__load16_u", "I64__atomic__load8_u", "I64__atomic__load16_u",
     "I64__atomic__load32_u", "I32__atomic__store", "I64__atomic__store",
     "I32__atomic__rmw__add", "I64__atomic__rmw__add",
     "I32__atomic__rmw__cmpxchg", "I64__atomic__rmw__cmpxchg"}

(* The calls of checkLaneAndTrans in checkInstr: lane count of the shape,  *)
(* operands taken and put.                                                 *)
LaneSig(Op) ==
    CASE Op \in {"I8x16__extract_lane_s", "I8x16__extract_lane_u"}
            -> Sig(16, <<V128>>, <<I32>>, TRUE)
      [] Op = "I8x16__replace_lane" -> Sig(16, <<V128, I32>>, <<V128>>, TRUE)
      [] Op \in {"I16x8__extract_lane_s", "I16x8__extract_lane_u"}
            -> Sig(8, <<V128>>, <<I32>>, TRUE)
      [] Op = "I16x8__replace_lane" -> Sig(8, <<V128, I32>>, <<V128>>, TRUE)
      [] Op = "I32x4__extract_lane" -> Sig(4, <<V128>>, <<I32>>, TRUE)
      [] Op = "I32x4__replace_lane" -> Sig(4, <<V128, I32>>, <<V128>>, TRUE)
      [] Op = "I64x2__extract_lane" -> Sig(2, <<V128>>, <<I64>>, TRUE)
      [] Op = "I64x2__replace_lane" -> Sig(2, <<V128, I64>>, <<V128>>, TRUE)
      [] Op = "F32x4__extract_lane" -> Sig(4, <<V128>>, <<F32>>, TRUE)
      [] Op = "F32x4__replace_lane" -> Sig(4, <<V128, F32>>, <<V128>>, TRUE)
      [] Op = "F64x2__extract_lane" -> Sig(2, <<V128>>, <<F64>>, TRUE)
      [] Op = "F64x2__replace_lane" -> Sig(2, <<V128, F64>>, <<V128>>, TRUE)

LaneOps ==
    {"I8x16__extract_lane_s", "I8x16__extract_lane_u", "I8x16__replace_lane",
     "I16x8__extract_lane_s", "I16x8__extract_lane_u", "I16x8__replace_lane",
     "I32x4__extract_lane", "I32x4__replace_lane",
     "I64x2__extract_lane", "I64x2__replace_lane",
     "F32x4__extract_lane", "F32x4__replace_lane",
     "F64x2__extract_lane", "F64x2__replace_lane"}

chkMem(M) ==
    checkAlignAndTrans(M, MemSig(M.ins.Op).N, MemSig(M.ins.Op).Take,
                       MemSig(M.ins.Op).Put, MemSig(M.ins.Op).Lane)

chkLane(M) ==
    checkLaneAndTrans(M, LaneSig(M.ins.Op).N, LaneSig(M.ins.Op).Take,
                      LaneSig(M.ins.Op).Put)

(* uint128_t as its 16 bytes, least significant first. *)
U128Bytes == 16

RECURSIVE BitAnd(_, _)
BitAnd(a, b) ==
    IF a = 0 \/ b = 0 THEN 0
    ELSE (a % 2) * (b % 2) + 2 * BitAnd(a \div 2, b \div 2)

(* operator& of uint128_t: bitwise, so byte by byte. *)
And128(x, y) == [i \in 1..U128Bytes |-> BitAnd(x[i], y[i])]

(* (uint128_t(0xe0e0e0e0e0e0e0e0U) << 64U) | uint128_t(0xe0e0e0e0e0e0e0e0U) *)
ShuffleMask == [i \in 1..U128Bytes |-> 224]

(* Mutant of I8x16__shuffle: the mask misses its upper 64 bits. *)
chkShuffle_lowHalf(M) ==
    IF \E i \in 1..U128Bytes :
          And128(M.ins.Num, [j \in 1..U128Bytes |-> IF j <= 8 THEN 224 ELSE 0])[i] # 0
    THEN Fail(M, "InvalidLaneIdx")
    ELSE StackTrans(M, <<V128, V128>>, <<V128>>)

(* I8x16__shuffle: Result = Num & Mask, any set bit is an error. *)
chkShuffle(M) ==
    IF \E i \in 1..U128Bytes : And128(M.ins.Num, ShuffleMask)[i] # 0
    THEN Fail(M, "InvalidLaneIdx")
    ELSE StackTrans(M, <<V128, V128>>, <<V128>>)

(* Memory__init: the memory index first, then the data index. *)
chkMemoryInit(M) ==
    IF M.ins.TargetIndex >= Mems THEN Fail(M, "InvalidMemoryIdx")
    ELSE IF M.ins.SourceIndex >= Len(Datas) THEN Fail(M, "InvalidDataIdx")
    ELSE StackTrans(M, <<I32, I32, I32>>, <<>>)

(* Mutant of Data__drop: the index |Datas| is let through. *)
chkDataDrop_inclusive(M) ==
    IF M.ins.TargetIndex > Len(Datas) THEN Fail(M, "InvalidDataIdx")
    ELSE M

(* Data__drop: the data index, no stack effect. *)
chkDataDrop(M) ==
    IF M.ins.TargetIndex >= Len(Datas) THEN Fail(M, "InvalidDataIdx")
    ELSE M

(* RefType::isFuncRefType. *)
isFuncRefType(T) == isRefType(T) /\ T.Heap = "FuncRef"

(* Call_indirect: the table, then the type index, then the operands. *)
chkCallIndirect(M) ==
    LET N == M.ins.TargetIndex
        T == M.ins.SourceIndex
    IN IF T >= Len(Tables) THEN Fail(M, "InvalidTableIdx")
       ELSE IF ~isFuncRefType(Tables[T + 1]) THEN Fail(M, "InvalidTableIdx")
       ELSE IF N >= Len(Types) THEN Fail(M, "InvalidFuncTypeIdx")
       ELSE StackTrans(popTypeE(M, I32), Types[N + 1].first, Types[N + 1].second)

(* Call_ref: the type index, then the parameters under a nullable          *)
(* reference to that type.                                                 *)
chkCallRef(M) ==
    LET TypeIdx == M.ins.TargetIndex
    IN IF TypeIdx >= Len(Types) THEN Fail(M, "InvalidFuncTypeIdx")
       ELSE StackTrans(M, Append(Types[TypeIdx + 1].first, RefIdxNull(TypeIdx)),
                       Types[TypeIdx + 1].second)

(* Return_call: the callee's results against Returns, then its parameters. *)
chkReturnCall(M) ==
    LET N == M.ins.TargetIndex
    IN IF Len(Funcs) <= N THEN Fail(M, "InvalidFuncIdx")
       ELSE IF Funcs[N + 1] >= Len(Types) THEN Fail(M, "Crash")
       ELSE Only({IF C.err # OK THEN C
                  ELSE unreachable(popTypes(C, Types[Funcs[N + 1] + 1].first))
                  : C \in {checkTypesMatching(M, Returns,
                                              Types[Funcs[N + 1] + 1].second)}})

chkReturnCallIndirect(M) ==
    LET N == M.ins.TargetIndex
        T == M.ins.SourceIndex
    IN IF Len(Tables) <= T THEN Fail(M, "InvalidTableIdx")
       ELSE IF ~isFuncRefType(Tables[T + 1]) THEN Fail(M, "InvalidTableIdx")
       ELSE IF Len(Types) <= N THEN Fail(M, "InvalidFuncTypeIdx")
       ELSE Only({IF C.err # OK THEN C
                  ELSE unreachable(popTypes(popTypeE(C, I32), Types[N + 1].first))
                  : C \in {checkTypesMatching(M, Returns, Types[N + 1].second)}})

chkReturnCallRef(M) ==
    LET TypeIdx == M.ins.TargetIndex
    IN IF TypeIdx >= Len(Types) THEN Fail(M, "InvalidFuncIdx")
       ELSE Only({IF C.err # OK THEN C
                  ELSE unreachable(popTypes(C, Append(Types[TypeIdx + 1].first,
                                                      RefIdxNull(TypeIdx))))
                  : C \in {checkTypesMatching(M, Returns,
                                              Types[TypeIdx + 1].second)}})

(* checkInstr on the instruction M.ins, which sits at position at. *)
checkInstr(M, at) ==
    LET Op == M.ins.Op
    IN CASE Op = "Unreachable" -> unreachable(M)
         [] Op = "Nop" -> M
         [] Op \in {"If", "Block", "Loop"} -> chkBlock(M, at)
         [] Op = "Else" -> chkElse(M)
         [] Op = "End" -> chkEnd(M)
         [] Op = "Br" -> chkBr(M, at)
         [] Op = "Br_if" -> chkBrIf(M, at)
         [] Op = "Br_table" -> chkBrTable(M, at)
         [] Op = "Br_on_null" -> chkBrOnNull(M, at)
         [] Op = "Br_on_non_null" -> chkBrOnNonNull(M, at)
         [] Op = "Return" -> chkReturn(M)
         [] Op = "Call" -> chkCall(M)
         [] Op = "Ref__null" -> chkRefNull(M)
         [] Op = "Ref__func" -> chkRefFunc(M)
         [] Op = "Ref__as_non_null" -> chkRefAsNonNull(M)
         [] Op = "Drop" -> StackPopAny(M)
         [] Op \in {"Local__get", "Local__set", "Local__tee"} -> chkLocal(M)
         [] Op = "I32__const" -> StackTrans(M, <<>>, <<I32>>)
         [] Op = "I64__const" -> StackTrans(M, <<>>, <<I64>>)
         [] Op = "V128__const" -> StackTrans(M, <<>>, <<V128>>)
         [] Op = "I8x16__shuffle" -> chkShuffle(M)
         [] Op = "Memory__init" -> chkMemoryInit(M)
         [] Op = "Call_indirect" -> chkCallIndirect(M)
         [] Op = "Call_ref" -> chkCallRef(M)
         [] Op = "Return_call" -> chkReturnCall(M)
         [] Op = "Return_call_indirect" -> chkReturnCallIndirect(M)
         [] Op = "Return_call_ref" -> chkReturnCallRef(M)
         [] Op = "Data__drop" -> chkDataDrop(M)
         [] Op \in MemOps -> chkMem(M)
         [] Op \in LaneOps -> chkLane(M)

-----------------------------------------------------------------------------
(* The interface of FormChecker: each operation as an action on its fields *)

OuterCode == "Outer"

(* Mutant of reset: the module-level state is cleared whatever the flag. *)
reset_alwaysClean(CleanGlobal) ==
    /\ ValStack' = <<>>
    /\ CtrlStack' = <<>>
    /\ Locals' = <<>>
    /\ Returns' = <<>>
    /\ UNCHANGED LocalInits
    /\ Types' = <<>>
    /\ Funcs' = <<>>
    /\ Tables' = <<>>
    /\ Mems' = 0
    /\ Globals' = <<>>
    /\ Datas' = <<>>
    /\ Elems' = <<>>
    /\ Refs' = {}
    /\ NumImportFuncs' = 0
    /\ NumImportGlobals' = 0

reset(CleanGlobal) ==
    /\ ValStack' = <<>>
    /\ CtrlStack' = <<>>
    /\ Locals' = <<>>
    /\ Returns' = <<>>
    /\ UNCHANGED LocalInits
    /\ IF CleanGlobal
       THEN /\ Types' = <<>>
            /\ Funcs' = <<>>
            /\ Tables' = <<>>
            /\ Mems' = 0
            /\ Globals' = <<>>
            /\ Datas' = <<>>
            /\ Elems' = <<>>
            /\ Refs' = {}
            /\ NumImportFuncs' = 0
            /\ NumImportGlobals' = 0
       ELSE UNCHANGED module

addType(Func) ==
    /\ Types' = Append(Types, FnType(Func.first, Func.second))
    /\ UNCHANGED <<Funcs, Tables, Mems, Globals, Datas, Elems, Refs,
                   NumImportFuncs, NumImportGlobals>>

(* Mutant of addFunc: the type index is stored without the range test. *)
addFunc_unchecked(TypeIdx, IsImport) ==
    /\ Funcs' = Append(Funcs, TypeIdx)
    /\ NumImportFuncs' = IF IsImport THEN NumImportFuncs + 1 ELSE NumImportFuncs
    /\ UNCHANGED <<Types, Tables, Mems, Globals, Datas, Elems, Refs,
                   NumImportGlobals>>

addFunc(TypeIdx, IsImport) ==
    /\ Funcs' = IF Len(Types) > TypeIdx THEN Append(Funcs, TypeIdx) ELSE Funcs
    /\ NumImportFuncs' = IF IsImport THEN NumImportFuncs + 1 ELSE NumImportFuncs
    /\ UNCHANGED <<Types, Tables, Mems, Globals, Datas, Elems, Refs,
                   NumImportGlobals>>

addTable(RefType) ==
    /\ Tables' = Append(Tables, RefType)
    /\ UNCHANGED <<Types, Funcs, Mems, Globals, Datas, Elems, Refs,
                   NumImportFuncs, NumImportGlobals>>

addMemory ==
    /\ Mems' = Mems + 1
    /\ UNCHANGED <<Types, Funcs, Tables, Globals, Datas, Elems, Refs,
                   NumImportFuncs, NumImportGlobals>>

addGlobal(ValT, ValMut, IsImport) ==
    /\ Globals' = Append(Globals, [first |-> ValT, second |-> ValMut])
    /\ NumImportGlobals' = IF IsImport THEN NumImportGlobals + 1
                           ELSE NumImportGlobals
    /\ UNCHANGED <<Types, Funcs, Tables, Mems, Datas, Elems, Refs,
                   NumImportFuncs>>

addData ==
    /\ Datas' = Append(Datas, Len(Datas))
    /\ UNCHANGED <<Types, Funcs, Tables, Mems, Globals, Elems, Refs,
                   NumImportFuncs, NumImportGlobals>>

addElem(RefType) ==
    /\ Elems' = Append(Elems, RefType)
    /\ UNCHANGED <<Types, Funcs, Tables, Mems, Globals, Datas, Refs,
                   NumImportFuncs, NumImportGlobals>>

addRef(FuncIdx) ==
    /\ Refs' = Refs \cup {FuncIdx}
    /\ UNCHANGED <<Types, Funcs, Tables, Mems, Globals, Datas, Elems,
                   NumImportFuncs, NumImportGlobals>>

(* Mutant of addLocal: the flag of an initialised local is set but its     *)
(* index is not recorded.                                                  *)
addLocal_flagOnly(V, Initialized) ==
    /\ Locals' = Append(Locals, [VType |-> V,
                                 IsInit |-> Initialized \/ isDefaultable(V)])
    /\ LocalInits' = LocalInits
    /\ UNCHANGED <<ValStack, CtrlStack, Returns>>

addLocal(V, Initialized) ==
    /\ Locals' = Append(Locals, [VType |-> V,
                                 IsInit |-> Initialized \/ isDefaultable(V)])
    /\ LocalInits' = IF Initialized \/ isDefaultable(V)
                     THEN Append(LocalInits, Len(Locals)) ELSE LocalInits
    /\ UNCHANGED <<ValStack, CtrlStack, Returns>>

(* The record the helpers thread through one checkInstr call. *)
Enter(ins, ub) ==
    [vs |-> ValStack, cs |-> CtrlStack, lo |-> Locals, li |-> LocalInits,
     ins |-> ins, err |-> OK, top |-> Unknown, ub |-> ub, ubRead |-> FALSE,
     frame |-> NoFrame, buf |-> <<>>, done |-> FALSE]

(* Mutant of validate: the call clears the scratch state before checking. *)
validate_resets(Size, RetVals) ==
    LET M == pushCtrl([Enter(NoInstr, NoFrame) EXCEPT !.cs = <<>>, !.vs = <<>>],
                      <<>>, RetVals, Size - 1, OuterCode)
    IN /\ Returns' = RetVals
       /\ IF Size > 0
          THEN /\ CtrlStack' = M.cs
               /\ ValStack' = M.vs
               /\ Res' = "Running"
          ELSE /\ CtrlStack' = <<>>
               /\ ValStack' = <<>>
               /\ Res' = OK
       /\ NumInstrs' = Size
       /\ pc' = 0
       /\ Instr' = NoInstr
       /\ Locals' = <<>>
       /\ UNCHANGED LocalInits

(* validate(Instrs, RetVals) up to the first iteration of checkInstrs: the  *)
(* returns are appended and checkExpr opens the frame [] -> Returns whose   *)
(* anchor is the last instruction; an empty view returns at once.           *)
validate(Size, RetVals) ==
    LET Rets == Returns \o RetVals
        M == pushCtrl([Enter(NoInstr, NoFrame) EXCEPT !.cs = CtrlStack],
                      <<>>, Rets, Size - 1, OuterCode)
    IN /\ Returns' = Rets
       /\ IF Size > 0
          THEN /\ CtrlStack' = M.cs
               /\ ValStack' = M.vs
               /\ Res' = "Running"
          ELSE /\ UNCHANGED <<CtrlStack, ValStack>>
               /\ Res' = OK
       /\ NumInstrs' = Size
       /\ pc' = 0
       /\ Instr' = NoInstr
       /\ UNCHANGED <<Locals, LocalInits>>

(* Mutant of checkInstrs: a failed check does not end the loop while       *)
(* instructions are left.                                                   *)
checkInstrs_goesOn(ins, ub) ==
    \E M \in {checkInstr(Enter(ins, ub), pc)} :
       /\ ValStack' = M.vs
       /\ CtrlStack' = M.cs
       /\ Locals' = M.lo
       /\ LocalInits' = M.li
       /\ Instr' = M.ins
       /\ pc' = IF M.err = OK \/ pc + 1 < NumInstrs THEN pc + 1 ELSE pc
       /\ Res' = IF pc + 1 < NumInstrs THEN "Running"
                 ELSE IF M.err # OK THEN M.err ELSE OK
       /\ UNCHANGED <<Returns, NumInstrs>>

(* One iteration of the loop of checkInstrs over the instruction ins: the   *)
(* first failure is returned, the end of the view returns success.          *)
checkInstrs(ins, ub) ==
    \E M \in {checkInstr(Enter(ins, ub), pc)} :
       /\ ValStack' = M.vs
       /\ CtrlStack' = M.cs
       /\ Locals' = M.lo
       /\ LocalInits' = M.li
       /\ Instr' = M.ins
       /\ pc' = IF M.err = OK THEN pc + 1 ELSE pc
       /\ Res' = IF M.err # OK THEN M.err
                 ELSE IF pc + 1 = NumInstrs THEN OK ELSE "Running"
       /\ UNCHANGED <<Returns, NumInstrs>>

-----------------------------------------------------------------------------
(* Inputs: what the callers and the decoder may hand to the checker *)

RetChoices == {<<>>, <<I32>>, <<I32, FuncRefNull>>}

LocalChoices == {<<I32, FALSE>>, <<RefIdxNN(0), FALSE>>, <<RefIdxNN(0), TRUE>>}

BlockTypes == {BTEmpty, BTVal(FuncRefNN), BTIdx(0)}

(* block/loop/if: the decoder fills JumpEnd and JumpElse; JumpElse = JumpEnd *)
(* is an if without an else arm.                                            *)
BlockInstrs(bts) ==
    {[MkInstr("Block") EXCEPT !.BlockType = bt, !.JumpEnd = je, !.JumpElse = je] :
        bt \in bts, je \in 1..MaxJump}
    \cup {[MkInstr("Loop") EXCEPT !.BlockType = bt, !.JumpEnd = MaxJump,
                                  !.JumpElse = MaxJump] : bt \in bts}
    \cup {[MkInstr("If") EXCEPT !.BlockType = bt, !.JumpEnd = MaxJump,
                                !.JumpElse = je] : bt \in bts, je \in {1, MaxJump}}

LabelLists ==
    {<<JumpDesc(a)>> : a \in 0..MaxLabel}
    \cup {<<JumpDesc(a), JumpDesc(b)>> : a \in 0..MaxLabel, b \in 0..MaxLabel}

BranchInstrs ==
    {[MkInstr(op) EXCEPT !.Jump = JumpDesc(n)] :
        op \in {"Br", "Br_if"}, n \in 0..MaxLabel}
    \cup {[MkInstr(op) EXCEPT !.TargetIndex = n] :
        op \in {"Br_on_null", "Br_on_non_null"}, n \in 0..MaxLabel}
    \cup {[MkInstr("Br_table") EXCEPT !.LabelList = ll] : ll \in LabelLists}

LocalInstrs ==
    {[MkInstr(op) EXCEPT !.TargetIndex = i] :
        op \in {"Local__get", "Local__set", "Local__tee"},
        i \in 0..(MaxLocals - 1)}

(* The alphabet of the control specification. *)
CtrlInstrs ==
    BlockInstrs(BlockTypes) \cup BranchInstrs
    \cup {MkInstr(op) : op \in {"Unreachable", "Else", "End", "Return", "Drop",
                                "I32__const"}}
    \cup {[MkInstr("Ref__null") EXCEPT !.ValType = FuncRefNull]}

(* The alphabet of the locals specification. *)
LocalsInstrs ==
    LocalInstrs
    \cup {[MkInstr("Block") EXCEPT !.JumpEnd = MaxJump, !.JumpElse = MaxJump],
          [MkInstr("If") EXCEPT !.JumpEnd = MaxJump, !.JumpElse = 1]}
    \cup {MkInstr(op) : op \in {"Else", "End", "I32__const"}}
    \cup {[MkInstr("Ref__func") EXCEPT !.TargetIndex = 0]}

(* What a read of CtrlStack.back() on an empty control stack may see. *)
UBFrames ==
    {[NoFrame EXCEPT !.Height = h, !.IsUnreachable = u, !.Fault = f] :
        h \in 0..1, u \in BOOLEAN, f \in BOOLEAN}

UBChoices == IF Len(CtrlStack) = 0 THEN UBFrames ELSE {NoFrame}

-----------------------------------------------------------------------------
(* Observations kept beside the program state *)

InitSet(lo) == {k - 1 : k \in {j \in 1..Len(lo) : lo[j].IsInit}}

NoFirst == [res |-> "None", pc |-> 0, trace |-> <<>>, added |-> <<>>,
            size |-> 0, rets |-> <<>>, ubEver |-> FALSE]

NoHist ==
    [entry |-> [vs |-> <<>>, cs |-> <<>>, lo |-> <<>>, ret |-> <<>>,
                passed |-> <<>>],
     added |-> <<>>, runs |-> 0, sinceReset |-> 0, resets |-> 0, adds |-> 0,
     flag |-> FALSE, phase |-> 1, first |-> NoFirst,
     ubRead |-> FALSE, ubEver |-> FALSE, preDepth |-> 0,
     lastOp |-> "none", popped |-> "None", everEmpty |-> FALSE,
     pop |-> [flips |-> {}, entryInit |-> {}, mark |-> 0, log |-> <<>>],
     setIn |-> <<>>, flipIn |-> <<>>, entryInit |-> <<>>, nest |-> <<>>]

(* Hist after a reset call: what was observed of the scratch state is      *)
(* dropped, the counts of calls stay.                                      *)
HistReset(CleanGlobal) ==
    [NoHist EXCEPT !.runs = Hist.runs, !.resets = Hist.resets + 1,
                   !.adds = Hist.adds, !.phase = Hist.phase,
                   !.first = Hist.first, !.flag = CleanGlobal,
                   !.lastOp = "reset"]

(* Hist after a module-level add call. *)
HistAdd(op) == [Hist EXCEPT !.adds = @ + 1, !.lastOp = op]

(* Hist after a validate call: the state it was made in, and the ghost      *)
(* stacks that run parallel to CtrlStack get the outermost frame's entry.   *)
HistValidate(Size, RetVals) ==
    [Hist EXCEPT
        !.entry = [vs |-> ValStack, cs |-> CtrlStack, lo |-> Locals,
                   ret |-> Returns, passed |-> RetVals],
        !.runs = @ + 1,
        !.sinceReset = @ + 1,
        !.ubRead = FALSE,
        !.ubEver = FALSE,
        !.preDepth = Len(CtrlStack),
        !.lastOp = "validate",
        !.popped = "None",
        !.everEmpty = (Size = 0),
        !.setIn = IF Size > 0 THEN Append(@, {}) ELSE @,
        !.flipIn = IF Size > 0 THEN Append(@, {}) ELSE @,
        !.entryInit = IF Size > 0 THEN Append(@, InitSet(Locals)) ELSE @]

(* Hist after one checkInstr call that ended in M.  setIn[f]: the locals a  *)
(* local.set/tee was checked on directly in frame f; flipIn[f]: the locals  *)
(* whose IsInit was flipped while f (or a frame nested in it) was open;     *)
(* entryInit[f]: the locals initialised when f was entered.                 *)
HistStep(M) ==
    LET op == M.ins.Op
        i == M.ins.TargetIndex
        H0 == [Hist EXCEPT !.ubRead = M.ubRead, !.ubEver = (@ \/ M.ubRead),
                           !.preDepth = Len(CtrlStack),
                           !.lastOp = "checkInstr", !.popped = M.frame.Code,
                           !.everEmpty = (@ \/ Len(M.cs) = 0)]
        n == Len(Hist.setIn)
        Popped == [flips |-> Hist.flipIn[n], entryInit |-> Hist.entryInit[n],
                   mark |-> M.frame.InitedLocal, log |-> LocalInits]
        Merged == IF n >= 2
                  THEN [PopBack(Hist.flipIn) EXCEPT ![n - 1] = @ \cup Hist.flipIn[n]]
                  ELSE <<>>
    IN IF M.err # OK THEN H0
       ELSE IF op \in {"If", "Block", "Loop"}
            THEN [H0 EXCEPT !.setIn = Append(@, {}),
                            !.flipIn = Append(@, {}),
                            !.entryInit = Append(@, InitSet(M.lo))]
       ELSE IF op = "Else"
            THEN [H0 EXCEPT !.pop = Popped,
                            !.setIn[n] = {},
                            !.flipIn = Append(Merged, {}),
                            !.entryInit[n] = InitSet(M.lo)]
       ELSE IF op = "End"
            THEN [H0 EXCEPT !.pop = Popped,
                            !.setIn = PopBack(@),
                            !.flipIn = Merged,
                            !.entryInit = PopBack(@)]
       ELSE IF op \in {"Local__set", "Local__tee"} /\ n > 0
            THEN [H0 EXCEPT !.setIn[n] = @ \cup {i},
                            !.flipIn[n] = IF Locals[i + 1].IsInit THEN @
                                          ELSE @ \cup {i}]
       ELSE H0

-----------------------------------------------------------------------------
(* Actions *)

AddLocalOf(choices) ==
    /\ Res # "Running"
    /\ Len(Locals) < MaxLocals
    /\ \E a \in choices :
          /\ addLocal(a[1], a[2])
          /\ Hist' = [Hist EXCEPT !.added = Append(@, [V |-> a[1], Initialized |-> a[2]]),
                                   !.lastOp = "addLocal"]
    /\ UNCHANGED <<module, driver>>

ValidateOf(sizes, rets) ==
    /\ Res # "Running"
    /\ \E Size \in sizes, RetVals \in rets :
          /\ validate(Size, RetVals)
          /\ Hist' = HistValidate(Size, RetVals)
    /\ UNCHANGED <<module, Trace>>

StepOver(instrs) ==
    /\ Res = "Running"
    /\ pc < NumInstrs
    /\ \E ins \in instrs, ub \in UBChoices :
          /\ checkInstrs(ins, ub)
          /\ \E M \in {checkInstr(Enter(ins, ub), pc)} : Hist' = HistStep(M)
    /\ UNCHANGED <<module, Trace>>

(* StepOver with the checked instruction, as checkInstr left it, and its   *)
(* result recorded in Trace.                                               *)
StepRec(instrs) ==
    /\ Res = "Running"
    /\ pc < NumInstrs
    /\ \E ins \in instrs, ub \in UBChoices :
          /\ checkInstrs(ins, ub)
          /\ \E M \in {checkInstr(Enter(ins, ub), pc)} :
                /\ Hist' = HistStep(M)
                /\ Trace' = Append(Trace, [ins |-> M.ins, err |-> M.err])
    /\ UNCHANGED module

ResetOf(flags) ==
    /\ Res # "Running"
    /\ Hist.resets < MaxResets
    /\ \E CleanGlobal \in flags :
          /\ reset(CleanGlobal)
          /\ Hist' = HistReset(CleanGlobal)
    /\ Res' = "Idle"
    /\ Trace' = <<>>
    /\ UNCHANGED <<Instr, NumInstrs, pc>>

(* A checker whose module environment was populated by the module-level    *)
(* callers: addType twice, addFunc(0), addRef(0).                          *)
Init ==
    /\ ValStack = <<>>
    /\ CtrlStack = <<>>
    /\ Locals = <<>>
    /\ Returns = <<>>
    /\ LocalInits = <<>>
    /\ Types = <<FnType(<<I32>>, <<I32>>), FnType(<<>>, <<I32, I64>>)>>
    /\ Funcs = <<0>>
    /\ Tables = <<>>
    /\ Mems = 0
    /\ Globals = <<>>
    /\ Datas = <<>>
    /\ Elems = <<>>
    /\ Refs = {0}
    /\ NumImportFuncs = 0
    /\ NumImportGlobals = 0
    /\ Instr = NoInstr
    /\ NumInstrs = 0
    /\ pc = 0
    /\ Res = "Idle"
    /\ Trace = <<>>
    /\ Hist = NoHist

(* Control specification: one validate call on the populated checker. *)
Validate == Res = "Idle" /\ ValidateOf(0..MaxInstrs, RetChoices)

Step == StepOver(CtrlInstrs)

Next == Validate \/ Step

Spec == Init /\ [][Next]_vars

-----------------------------------------------------------------------------
(* Properties of the control specification *)

ValTypeSet == {I32, I64, FuncRefNull, FuncRefNN, ExternRefNull,
               RefIdxNull(0), RefIdxNN(0)}

Succeeded == Res \in {"Running", OK} /\ Hist.lastOp = "checkInstr"

(* The validate call in progress was made on a freshly reset checker. *)
FreshEntry ==
    Hist.entry.vs = <<>> /\ Hist.entry.cs = <<>> /\ Hist.entry.ret = <<>>

(* The last instruction of the view was an `end` that popped the frame     *)
(* checkExpr had opened, and validate returned success.                    *)
OuterEndDone ==
    /\ Hist.lastOp = "checkInstr"
    /\ Instr.Op = "End"
    /\ Hist.popped = OuterCode
    /\ pc = NumInstrs
    /\ Res = OK

(* C1: on a freshly reset checker, when validate succeeds on a view whose  *)
(* last instruction is the `end` closing the outermost frame, the control  *)
(* stack is empty and the operand stack is exactly the declared returns.   *)
C1_OuterEndLeavesReturns ==
    (FreshEntry /\ OuterEndDone) =>
        /\ CtrlStack = <<>>
        /\ ValStack = Hist.entry.passed

C1_Witness ==
    /\ FreshEntry /\ OuterEndDone
    /\ Hist.entry.passed = <<I32, FuncRefNull>>
    /\ NumInstrs = 3

(* C2: after every successfully checked instruction with a frame open, the *)
(* operand stack is at least as high as the top frame's Height.            *)
C2_StackAboveFloor ==
    (Succeeded /\ Len(CtrlStack) > 0) =>
        Len(ValStack) >= Back(CtrlStack).Height

C2_Witness ==
    /\ Succeeded
    /\ Instr.Op = "Br_table"
    /\ Len(Instr.LabelList) = 2
    /\ Len(CtrlStack) = 2
    /\ Back(CtrlStack).IsUnreachable

AtFloor == Len(CtrlStack) > 0 /\ Len(ValStack) = Back(CtrlStack).Height

Here == Enter(NoInstr, NoFrame)

(* C3: at the floor of a frame marked unreachable, popType() succeeds with *)
(* Unknown and leaves the operand stack as it is, and popType(t) succeeds  *)
(* and returns t, for every value type t.                                  *)
C3_UnreachableFloorPop ==
    (AtFloor /\ Back(CtrlStack).IsUnreachable) =>
        /\ popType(Here).err = OK
        /\ popType(Here).top = Unknown
        /\ popType(Here).vs = ValStack
        /\ \A t \in ValTypeSet :
              /\ popTypeE(Here, t).err = OK
              /\ popTypeE(Here, t).top = t
              /\ popTypeE(Here, t).vs = ValStack

(* A drop was checked at the floor of an unreachable frame. *)
C3_Witness ==
    /\ AtFloor /\ Back(CtrlStack).IsUnreachable
    /\ Hist.lastOp = "checkInstr" /\ Instr.Op = "Drop"

(* C4: at the floor of a frame not marked unreachable every pop fails with *)
(* TypeCheckFailed and leaves the operand stack as it is; and no           *)
(* instruction checked inside a frame changes the operands below that      *)
(* frame's Height.                                                         *)
C4_FloorPopFails ==
    /\ (AtFloor /\ ~Back(CtrlStack).IsUnreachable) =>
          /\ popType(Here).err = "TypeCheckFailed"
          /\ popType(Here).vs = ValStack
          /\ \A t \in ValTypeSet :
                /\ popTypeE(Here, t).err = "TypeCheckFailed"
                /\ popTypeE(Here, t).vs = ValStack
    /\ (Res = "Running" /\ Len(CtrlStack) > 0) =>
          \A ins \in CtrlInstrs :
             LET H == Back(CtrlStack).Height
                 M == checkInstr(Enter(ins, NoFrame), pc)
             IN /\ Len(M.vs) >= H
                /\ SubSeq(M.vs, 1, H) = SubSeq(ValStack, 1, H)

(* A drop failed at the floor of a block that sits above an operand of the *)
(* enclosing frame, and that operand is still there.                       *)
C4_Witness ==
    /\ Hist.lastOp = "checkInstr" /\ Instr.Op = "Drop"
    /\ Res = "TypeCheckFailed"
    /\ Len(CtrlStack) = 2 /\ ~Back(CtrlStack).IsUnreachable
    /\ Back(CtrlStack).Height = 1
    /\ ValStack = <<I32>>

-----------------------------------------------------------------------------
(* Locals specification: locals are added, then one validate call checks a *)
(* view over the local.* instructions and the blocks around them.          *)

AddLocalL == Res = "Idle" /\ AddLocalOf(LocalChoices)

ValidateL == Res = "Idle" /\ ValidateOf(0..MaxInstrsL, {<<>>})

StepL == StepOver(LocalsInstrs)

NextLocals == AddLocalL \/ ValidateL \/ StepL

SpecLocals == Init /\ [][NextLocals]_vars

(* C5: after a successful popCtrl (by end or else) every local whose       *)
(* IsInit was flipped while the popped frame, or a frame nested in it, was *)
(* open is uninitialised again, every local that was initialised when the  *)
(* frame was entered still is, and LocalInits is cut to the frame's        *)
(* watermark.                                                              *)
C5_PopCtrlRevertsInits ==
    (Succeeded /\ Hist.popped # "None") =>
        /\ \A i \in Hist.pop.flips : ~Locals[i + 1].IsInit
        /\ \A i \in Hist.pop.entryInit : Locals[i + 1].IsInit
        /\ LocalInits = SubSeq(Hist.pop.log, 1, Hist.pop.mark)

(* An else was checked after the then-arm had set an uninitialised local,  *)
(* with another local initialised from the start.                          *)
C5_Witness ==
    /\ Succeeded /\ Instr.Op = "Else"
    /\ Hist.pop.flips # {}
    /\ Hist.pop.entryInit # {}

(* The claim's notion of an initialised local: added as a parameter or     *)
(* with a defaultable type, or set by a local.set/tee checked in a frame   *)
(* that is still open.                                                     *)
DeclaredInit(i) ==
    \/ Hist.added[i + 1].Initialized
    \/ isDefaultable(Hist.added[i + 1].V)
    \/ \E f \in 1..Len(Hist.setIn) : i \in Hist.setIn[f]

LocalGet(i) == [MkInstr("Local__get") EXCEPT !.TargetIndex = i]

(* C6: local.get i, i < |Locals|, fails with InvalidUninitLocal exactly    *)
(* when local i is not initialised in the claim's sense, and succeeds      *)
(* otherwise.                                                              *)
C6_LocalGetUninit ==
    (Res = "Running") =>
        \A i \in 0..(Len(Locals) - 1) :
            \A M \in {checkInstr(Enter(LocalGet(i), NoFrame), pc)} :
               /\ (M.err = "InvalidUninitLocal") <=> ~DeclaredInit(i)
               /\ M.err \in {OK, "InvalidUninitLocal"}

(* The same, while the frame opened by validate is still open. *)
C6_LocalGetUninit_InBody ==
    (Res = "Running" /\ ~Hist.ubEver) =>
        \A i \in 0..(Len(Locals) - 1) :
            \A M \in {checkInstr(Enter(LocalGet(i), NoFrame), pc)} :
               /\ (M.err = "InvalidUninitLocal") <=> ~DeclaredInit(i)
               /\ M.err \in {OK, "InvalidUninitLocal"}

-----------------------------------------------------------------------------
(* Lifecycle specification: the populated checker is used for several      *)
(* validate calls, with and without a reset between them.                  *)

AddLocalE == Res = "Idle" /\ AddLocalOf({<<I32, TRUE>>, <<FuncRefNN, FALSE>>})

Reset == ResetOf(BOOLEAN)

ValidateE ==
    /\ Hist.runs < MaxRuns
    /\ ValidateOf(0..MaxInstrsE, {<<>>, <<I32>>})

LifeInstrs ==
    {MkInstr(op) : op \in {"End", "I32__const", "Drop"}}
    \cup {[MkInstr(op) EXCEPT !.TargetIndex = 0] : op \in {"Local__get", "Local__set"}}

StepE == StepOver(LifeInstrs)

NextLife == AddLocalE \/ Reset \/ ValidateE \/ StepE

SpecLife == Init /\ [][NextLife]_vars

(* The frame checkExpr opens for a view of NumInstrs instructions. *)
OuterFrame ==
    [StartTypes |-> <<>>, EndTypes |-> Returns, Jump |-> NumInstrs - 1,
     Height |-> Len(ValStack), InitedLocal |-> Len(LocalInits),
     IsUnreachable |-> FALSE, Code |-> OuterCode]

(* C8 as stated: right after a validate call, whatever preceded it, the    *)
(* body is about to be checked against exactly the passed returns, from an *)
(* empty operand stack and with the outermost frame alone on the control   *)
(* stack.                                                                  *)
C8_ValidateResets ==
    (Hist.lastOp = "validate") =>
        /\ Returns = Hist.entry.passed
        /\ ValStack = <<>>
        /\ Len(CtrlStack) = IF NumInstrs > 0 THEN 1 ELSE 0

(* C8, amended: validate clears nothing.  It appends the passed returns to *)
(* Returns, leaves ValStack and Locals as they were and, for a non-empty   *)
(* view, pushes the outermost frame on top of the frames already there.    *)
(* Only the first validate since construction or since a reset checks      *)
(* against exactly the passed returns from an empty operand stack.         *)
C8_ValidateAppends ==
    (Hist.lastOp = "validate") =>
        /\ Returns = Hist.entry.ret \o Hist.entry.passed
        /\ ValStack = Hist.entry.vs
        /\ Locals = Hist.entry.lo
        /\ CtrlStack = IF NumInstrs > 0 THEN Append(Hist.entry.cs, OuterFrame)
                       ELSE Hist.entry.cs
        /\ (Hist.sinceReset = 1) =>
              /\ Returns = Hist.entry.passed
              /\ ValStack = <<>>
              /\ Hist.entry.cs = <<>>

(* A second validate with no reset since the first, on a checker whose     *)
(* operand stack and returns list the first one left non-empty.            *)
C8_Witness ==
    /\ Hist.lastOp = "validate"
    /\ Hist.sinceReset = 2
    /\ NumInstrs > 0
    /\ Hist.entry.vs # <<>>
    /\ Hist.entry.ret # <<>>
    /\ Hist.entry.passed # <<>>

(* C9 as stated: after reset, with either flag, the operand stack, the     *)
(* control stack, the locals, the returns list and the local-init list are *)
(* all empty.                                                              *)
C9_ResetEmptiesScratch ==
    (Hist.lastOp = "reset") =>
        /\ ValStack = <<>>
        /\ CtrlStack = <<>>
        /\ Locals = <<>>
        /\ Returns = <<>>
        /\ LocalInits = <<>>

(* What reset does clear. *)
C9_ResetEmptiesButLog ==
    (Hist.lastOp = "reset") =>
        /\ ValStack = <<>>
        /\ CtrlStack = <<>>
        /\ Locals = <<>>
        /\ Returns = <<>>

-----------------------------------------------------------------------------
(* Environment specification: a freshly constructed checker is populated   *)
(* by the module-level add calls, used and reset.                          *)

InitFresh ==
    /\ ValStack = <<>>
    /\ CtrlStack = <<>>
    /\ Locals = <<>>
    /\ Returns = <<>>
    /\ LocalInits = <<>>
    /\ Types = <<>>
    /\ Funcs = <<>>
    /\ Tables = <<>>
    /\ Mems = 0
    /\ Globals = <<>>
    /\ Datas = <<>>
    /\ Elems = <<>>
    /\ Refs = {}
    /\ NumImportFuncs = 0
    /\ NumImportGlobals = 0
    /\ Instr = NoInstr
    /\ NumInstrs = 0
    /\ pc = 0
    /\ Res = "Idle"
    /\ Trace = <<>>
    /\ Hist = NoHist

(* A module-level add call, made before the function bodies are checked. *)
AddCall(call, op) ==
    /\ Res = "Idle"
    /\ Hist.adds < MaxAdds
    /\ call
    /\ Hist' = HistAdd(op)
    /\ UNCHANGED <<scratch, driver>>

AddType == AddCall(addType(FnType(<<>>, <<I32>>)), "addType")

AddFunc == \E IsImport \in BOOLEAN : AddCall(addFunc(0, IsImport), "addFunc")

AddTable == AddCall(addTable(FuncRefNull), "addTable")

AddMemory == AddCall(addMemory, "addMemory")

AddGlobal ==
    \E IsImport \in BOOLEAN : AddCall(addGlobal(I32, TRUE, IsImport), "addGlobal")

AddData == AddCall(addData, "addData")

AddElem == AddCall(addElem(FuncRefNull), "addElem")

AddRef == AddCall(addRef(0), "addRef")

AddLocalM == Res = "Idle" /\ Locals = <<>> /\ AddLocalOf({<<I32, FALSE>>})

ValidateM ==
    /\ Hist.runs < MaxRuns
    /\ ValidateOf(0..MaxInstrsE, {<<I32>>})

EnvInstrs ==
    {MkInstr("End")}
    \cup {[MkInstr(op) EXCEPT !.TargetIndex = 0] : op \in {"Call", "Ref__func"}}

StepM == StepOver(EnvInstrs)

NextEnv ==
    \/ AddType \/ AddFunc \/ AddTable \/ AddMemory
    \/ AddGlobal \/ AddData \/ AddElem \/ AddRef
    \/ AddLocalM \/ Reset \/ ValidateM \/ StepM

SpecEnv == InitFresh /\ [][NextEnv]_vars

EmptyModule == <<<<>>, <<>>, <<>>, 0, <<>>, <<>>, <<>>, {}, 0, 0>>

(* What one call may do to the module-level state, by the call made. *)
ModuleEffect ==
    LET op == Hist'.lastOp
    IN /\ op \in {"validate", "checkInstr", "addLocal"} => UNCHANGED module
       /\ op = "reset" => IF Hist'.flag THEN module' = EmptyModule
                          ELSE UNCHANGED module
       /\ op = "addType" =>
            UNCHANGED <<Funcs, Tables, Mems, Globals, Datas, Elems, Refs,
                        NumImportFuncs, NumImportGlobals>>
       /\ op = "addFunc" =>
            UNCHANGED <<Types, Tables, Mems, Globals, Datas, Elems, Refs,
                        NumImportGlobals>>
       /\ op = "addTable" =>
            UNCHANGED <<Types, Funcs, Mems, Globals, Datas, Elems, Refs,
                        NumImportFuncs, NumImportGlobals>>
       /\ op = "addMemory" =>
            UNCHANGED <<Types, Funcs, Tables, Globals, Datas, Elems, Refs,
                        NumImportFuncs, NumImportGlobals>>
       /\ op = "addGlobal" =>
            UNCHANGED <<Types, Funcs, Tables, Mems, Datas, Elems, Refs,
                        NumImportFuncs>>
       /\ op = "addData" =>
            UNCHANGED <<Types, Funcs, Tables, Mems, Globals, Elems, Refs,
                        NumImportFuncs, NumImportGlobals>>
       /\ op = "addElem" =>
            UNCHANGED <<Types, Funcs, Tables, Mems, Globals, Datas, Refs,
                        NumImportFuncs, NumImportGlobals>>
       /\ op = "addRef" =>
            UNCHANGED <<Types, Funcs, Tables, Mems, Globals, Datas, Elems,
                        NumImportFuncs, NumImportGlobals>>

(* C10: validate (each checkInstr of it, passing or failing), addLocal and *)
(* reset(false) leave the module-level state unchanged; an add call        *)
(* changes only the fields of its own kind; reset(true) clears them all.   *)
C10_ModuleStateFrame == [][ModuleEffect]_vars

(* A populated checker that validated a body and was then reset(false),    *)
(* with its types and functions still there.                               *)
C10_Witness ==
    /\ Hist.lastOp = "reset"
    /\ ~Hist.flag
    /\ Hist.runs > 0
    /\ Types # <<>>
    /\ Funcs # <<>>

-----------------------------------------------------------------------------
(* Rerun specification: a body is validated on the populated checker, the  *)
(* checker is reset(false), the same locals are added again and the same   *)
(* body, as the first run left it, is validated again.                     *)

RerunInstrs ==
    {MkInstr(op) : op \in {"End", "I32__const", "Drop"}}
    \cup {[MkInstr(op) EXCEPT !.TargetIndex = 0] : op \in {"Local__get", "Local__set"}}
    \cup {[MkInstr("Br") EXCEPT !.Jump = JumpDesc(0)]}

AddLocalR ==
    /\ Hist.phase = 1
    /\ Res = "Idle"
    /\ AddLocalOf({<<I32, FALSE>>, <<FuncRefNN, FALSE>>})

ValidateR ==
    /\ Hist.phase = 1
    /\ Res = "Idle"
    /\ ValidateOf(1..MaxInstrsR, {<<>>, <<I32>>})

StepR == Hist.phase = 1 /\ StepRec(RerunInstrs)

(* reset(false) after the first run ended, in success or in an error: the  *)
(* run is remembered in Hist.first.                                        *)
ResetR ==
    /\ Hist.phase = 1
    /\ Res \notin {"Idle", "Running"}
    /\ reset(FALSE)
    /\ Hist' = [NoHist EXCEPT
                  !.phase = 2, !.lastOp = "reset", !.resets = 1,
                  !.runs = Hist.runs,
                  !.first = [res |-> Res, pc |-> pc, trace |-> Trace,
                             added |-> Hist.added, size |-> NumInstrs,
                             rets |-> Hist.entry.passed,
                             ubEver |-> Hist.ubEver]]
    /\ Res' = "Idle"
    /\ Trace' = <<>>
    /\ UNCHANGED <<Instr, NumInstrs, pc>>

ReAddLocal ==
    /\ Hist.phase = 2
    /\ Res = "Idle"
    /\ Len(Locals) < Len(Hist.first.added)
    /\ LET a == Hist.first.added[Len(Locals) + 1]
       IN /\ addLocal(a.V, a.Initialized)
          /\ Hist' = [Hist EXCEPT !.added = Append(@, a), !.lastOp = "addLocal"]
    /\ UNCHANGED <<module, driver>>

ReValidate ==
    /\ Hist.phase = 2
    /\ Res = "Idle"
    /\ Len(Locals) = Len(Hist.first.added)
    /\ validate(Hist.first.size, Hist.first.rets)
    /\ Hist' = HistValidate(Hist.first.size, Hist.first.rets)
    /\ UNCHANGED <<module, Trace>>

(* The instruction at pc is the one the first run checked there; where the *)
(* first run never got to, it is any instruction of the alphabet.          *)
ReStep ==
    /\ Hist.phase = 2
    /\ StepRec(IF pc < Len(Hist.first.trace)
               THEN {Hist.first.trace[pc + 1].ins} ELSE RerunInstrs)

NextRerun ==
    AddLocalR \/ ValidateR \/ StepR \/ ResetR \/ ReAddLocal \/ ReValidate \/ ReStep

SpecRerun == Init /\ [][NextRerun]_vars

RerunEnded ==
    /\ Hist.phase = 2
    /\ Hist.lastOp = "checkInstr"
    /\ Res \notin {"Idle", "Running"}

(* C7 as stated: the second run ends as the first did, with the same       *)
(* result at the same instruction and the same values in every field the   *)
(* checker writes into the instructions.                                   *)
C7_RerunSame ==
    RerunEnded =>
        /\ Res = Hist.first.res
        /\ pc = Hist.first.pc
        /\ Trace = Hist.first.trace

(* The same, for runs in which no frame was read off an empty CtrlStack. *)
C7_RerunSame_FramesRead ==
    (RerunEnded /\ ~Hist.ubEver /\ ~Hist.first.ubEver) =>
        /\ Res = Hist.first.res
        /\ pc = Hist.first.pc
        /\ Trace = Hist.first.trace

-----------------------------------------------------------------------------
(* Properties of the walk over the instructions, on the rerun specification *)

Failed == Res \notin {"Idle", "Running", OK}

(* Trace holds one entry per checked instruction, in order; only the last   *)
(* may be a failure, and then it is the call's result and the instruction   *)
(* at pc is as that check left it.                                          *)
WalkInOrder ==
    /\ Res \in {"Running", OK} => pc = Len(Trace)
    /\ \A k \in 1..Len(Trace) :
          Trace[k].err # OK =>
              /\ k = Len(Trace)
              /\ Res = Trace[k].err
              /\ pc = k - 1
              /\ Instr = Trace[k].ins

(* C11: validate checks the instructions in order and stops at the first    *)
(* one whose check fails: that instruction's error is the result, no later  *)
(* instruction is checked, and no checkInstr step follows the failure, so   *)
(* nothing of the checker or of a later instruction changes after it.       *)
C11_StopsAtFirstFailure ==
    /\ []WalkInOrder
    /\ [][Failed => (Hist'.lastOp # "checkInstr" /\ Trace' \in {Trace, <<>>})]_vars

(* A run that failed after a successful check, with instructions left. *)
C11_Witness ==
    /\ Failed
    /\ Hist.lastOp = "checkInstr"
    /\ Len(Trace) >= 2
    /\ pc + 1 < NumInstrs

-----------------------------------------------------------------------------
(* Properties of the fields the checker writes into the instructions *)

(* The decoder hands an instruction over with the fields the checker fills *)
(* at zero.                                                                *)
NoMeta(J) == J.StackEraseBegin = 0 /\ J.StackEraseEnd = 0 /\ J.PCOffset = 0

Unwritten(I) ==
    /\ I.StackOffset = 0
    /\ NoMeta(I.Jump)
    /\ \A k \in 1..Len(I.LabelList) : NoMeta(I.LabelList[k])

(* C12: when the check of an instruction fails, none of that instruction's *)
(* own fields (stack_offset, the branch metadata, any br_table label       *)
(* entry) has been written.                                                *)
C12_FailingInstrUnwritten ==
    (Failed /\ Hist.lastOp = "checkInstr") => Unwritten(Instr)

(* The same for the instructions other than local.get/set/tee and          *)
(* br_table, which write before their last check.                          *)
C12_FailingInstrUnwritten_Others ==
    (Failed /\ Hist.lastOp = "checkInstr"
       /\ Instr.Op \notin {"Local__get", "Local__set", "Local__tee", "Br_table"})
    => Unwritten(Instr)

Max(a, b) == IF a >= b THEN a ELSE b

(* A checkInstr step that checked a br or br_if successfully. *)
BrChecked ==
    /\ Hist'.lastOp = "checkInstr"
    /\ Res' \in {"Running", OK}
    /\ Instr'.Op \in {"Br", "Br_if"}

(* The top Len(T) operands of vs above the floor match T; below the floor   *)
(* of an unreachable frame nothing is there to match.                       *)
TopMatches(vs, floor, T) ==
    \A j \in 1..Len(T) :
        LET at == Len(vs) - Len(T) + j
        IN at > floor => (vs[at] = unreachableVType \/ matchType(T[j], vs[at]))

(* C13: a successful br N / br_if N, with L the frame N labels down and T  *)
(* its label types, pops T (after the i32 of br_if), writes                 *)
(* stack_erase_end = |T| and stack_erase_begin = (size after the pops -     *)
(* L.height) + |T|; the size after the pops is never below L.height, so     *)
(* begin >= end.                                                            *)
C13_BranchErase ==
    [][BrChecked =>
        LET N == Instr'.Jump.TargetIndex
            L == CtrlStack[Len(CtrlStack) - N]
            T == getLabelTypes(L)
            Cond == IF Instr'.Op = "Br_if" THEN 1 ELSE 0
            Floor == Back(CtrlStack).Height
            After == Max(Len(ValStack) - Cond - Len(T), Floor)
        IN /\ N < Len(CtrlStack)
           /\ Back(CtrlStack).IsUnreachable \/ Len(ValStack) - Cond - Len(T) >= Floor
           /\ TopMatches(SubSeq(ValStack, 1, Len(ValStack) - Cond), Floor, T)
           /\ Instr'.Op = "Br_if" =>
                  ValStack' = SubSeq(ValStack, 1, After) \o T
           /\ Instr'.Op = "Br" => ValStack' = SubSeq(ValStack, 1, Floor)
           /\ Instr'.Jump.StackEraseEnd = Len(T)
           /\ Instr'.Jump.StackEraseBegin = (After - L.Height) + Len(T)
           /\ After >= L.Height
           /\ Instr'.Jump.StackEraseBegin >= Instr'.Jump.StackEraseEnd
    ]_vars

(* A br or br_if was checked that carries operands and leaves some behind. *)
C13_Witness ==
    /\ Hist.lastOp = "checkInstr"
    /\ Res \in {"Running", OK}
    /\ Instr.Op \in {"Br", "Br_if"}
    /\ Instr.Jump.StackEraseEnd >= 1
    /\ Instr.Jump.StackEraseBegin > Instr.Jump.StackEraseEnd

-----------------------------------------------------------------------------
(* Nesting specification: one validate call on the populated checker over  *)
(* a well-nested body. Hist.nest runs parallel to CtrlStack and holds, for *)
(* every open frame, the position of the instruction that opened it and    *)
(* the positions of its else and of its matching end; an instruction is    *)
(* only placed where the nesting allows it, and the decoder's JumpEnd and  *)
(* JumpElse are the distances to the matching end and else.                *)

NestBlockTypes == {BTEmpty, BTVal(FuncRefNN)}

NestInstrs ==
    {[MkInstr(op) EXCEPT !.BlockType = bt, !.JumpEnd = je, !.JumpElse = je] :
        op \in {"Block", "Loop", "If"}, bt \in NestBlockTypes, je \in 1..MaxJumpN}
    \cup {[MkInstr("If") EXCEPT !.JumpEnd = je, !.JumpElse = jl] :
             je \in 2..MaxJumpN, jl \in 1..(MaxJumpN - 1)}
    \cup BranchInstrs
    \cup {MkInstr(op) : op \in {"Unreachable", "Else", "End", "I32__const"}}
    \cup {[MkInstr("Ref__null") EXCEPT !.ValType = FuncRefNull]}

HasElse(e) == e.code = "If" /\ e.els # e.end

(* Where the instructions directly inside the frame e must stop. *)
ArmEnd(e) == IF HasElse(e) THEN e.els ELSE e.end

WellPlaced(ins) ==
    /\ Hist.nest # <<>>
    /\ LET e == Back(Hist.nest)
       IN IF ins.Op = "End" THEN pc = e.end /\ ~HasElse(e)
          ELSE IF ins.Op = "Else" THEN HasElse(e) /\ pc = e.els
          ELSE IF ins.Op \in {"Block", "Loop", "If"}
               THEN /\ pc + ins.JumpEnd < ArmEnd(e)
                    /\ ins.JumpElse >= 1
                    /\ ins.JumpElse <= ins.JumpEnd
          ELSE pc < ArmEnd(e)

NestStep(M) ==
    LET G == Hist.nest
        I == M.ins
    IN IF M.err # OK THEN G
       ELSE IF I.Op \in {"Block", "Loop", "If"}
            THEN Append(G, [open |-> pc, code |-> I.Op, end |-> pc + I.JumpEnd,
                            els |-> pc + I.JumpElse])
       ELSE IF I.Op = "Else"
            THEN [G EXCEPT ![Len(G)].code = "Else"]
       ELSE IF I.Op = "End" THEN PopBack(G)
       ELSE G

ValidateN ==
    /\ Res = "Idle"
    /\ \E Size \in 1..MaxInstrsN :
          /\ validate(Size, <<>>)
          /\ Hist' = [HistValidate(Size, <<>>) EXCEPT
                        !.nest = <<[open |-> -1, code |-> OuterCode,
                                    end |-> Size - 1, els |-> Size - 1]>>]
    /\ UNCHANGED <<module, Trace>>

StepN ==
    /\ Res = "Running"
    /\ pc < NumInstrs
    /\ \E ins \in NestInstrs, ub \in UBChoices :
          /\ WellPlaced(ins)
          /\ checkInstrs(ins, ub)
          /\ \E M \in {checkInstr(Enter(ins, ub), pc)} :
                Hist' = [HistStep(M) EXCEPT !.nest = NestStep(M)]
    /\ UNCHANGED <<module, Trace>>

NextNest == ValidateN \/ StepN

SpecNest == Init /\ [][NextNest]_vars

(* The position a branch to the frame e jumps to: the loop instruction     *)
(* itself, or the matching end of any other frame.                         *)
Anchor(e) == IF e.code = "Loop" THEN e.open ELSE e.end

(* The metadata J, written by the branch at position at for the label N    *)
(* of the nesting G, leads to the anchor of its frame.                     *)
ToAnchor(J, N, G, at) ==
    /\ N < Len(G)
    /\ J.PCOffset = Anchor(G[Len(G) - N]) - at
    /\ G[Len(G) - N].code = "Loop" => J.PCOffset < 0
    /\ G[Len(G) - N].code # "Loop" => J.PCOffset > 0

(* C14: in a well-nested body every branch whose metadata is written gets  *)
(* pc_offset = position(anchor) - position(branch): negative, to the loop  *)
(* instruction, for a loop frame; positive, to the matching end, for       *)
(* block, if, else-reopened and outermost frames.                          *)
C14_PCOffsetToAnchor ==
    [][(Hist'.lastOp = "checkInstr") =>
        LET I == Instr'
            G == Hist.nest
            Passed == Res' \in {"Running", OK}
        IN /\ (Passed /\ I.Op \in {"Br", "Br_if"}) =>
                  ToAnchor(I.Jump, I.Jump.TargetIndex, G, pc)
           /\ (Passed /\ I.Op = "Br_on_non_null") =>
                  ToAnchor(I.Jump, I.TargetIndex, G, pc)
           /\ (I.Op = "Br_on_null" /\ (~NoMeta(I.Jump)
                    \/ (Passed /\ Len(ValStack) > Back(CtrlStack).Height
                               /\ Back(ValStack) # unreachableVType))) =>
                  ToAnchor(I.Jump, I.TargetIndex, G, pc)
           /\ I.Op = "Br_table" =>
                  \A k \in 1..Len(I.LabelList) :
                      (Passed \/ ~NoMeta(I.LabelList[k])) =>
                          ToAnchor(I.LabelList[k], I.LabelList[k].TargetIndex, G, pc)
    ]_vars

(* A branch in the else arm of an if was checked that targets the if's own *)
(* frame.                                                                  *)
C14_Witness ==
    /\ Hist.lastOp = "checkInstr"
    /\ Res = "Running"
    /\ Instr.Op \in {"Br", "Br_if"}
    /\ Instr.Jump.TargetIndex = 0
    /\ Hist.nest # <<>>
    /\ Back(Hist.nest).code = "Else"
    /\ Instr.Jump.PCOffset > 0

(* A branch to a loop frame was checked inside the loop. *)
C14_WitnessLoop ==
    /\ Hist.lastOp = "checkInstr"
    /\ Res = "Running"
    /\ Instr.Op \in {"Br", "Br_if"}
    /\ Instr.Jump.TargetIndex < Len(Hist.nest)
    /\ Hist.nest[Len(Hist.nest) - Instr.Jump.TargetIndex].code = "Loop"
    /\ Instr.Jump.PCOffset < 0

LocalOps == {"Local__get", "Local__set", "Local__tee"}

(* C15: every local.get/set/tee with index i < |locals| gets               *)
(* stack_offset = |operand stack| + (|locals| - i), the operand stack      *)
(* taken before the instruction's own pop or push.                         *)
C15_StackOffset ==
    [][(/\ Hist'.lastOp = "checkInstr"
        /\ Instr'.Op \in LocalOps
        /\ Instr'.TargetIndex < Len(Locals))
       => Instr'.StackOffset = Len(ValStack) + (Len(Locals) - Instr'.TargetIndex)
    ]_vars

(* A local.set of the second of two locals was checked on an operand stack *)
(* that held more than its operand.                                        *)
C15_Witness ==
    /\ Hist.lastOp = "checkInstr"
    /\ Res \in {"Running", OK}
    /\ Instr.Op = "Local__set"
    /\ Len(Locals) = 2
    /\ Instr.TargetIndex = 1
    /\ Len(ValStack) >= 1
    /\ Instr.StackOffset = Len(ValStack) + 2

-----------------------------------------------------------------------------
(* Table specification: one validate call on the populated checker over    *)
(* bodies of blocks, constants, unreachable and br_table with up to three  *)
(* labels.                                                                 *)

TableLabelLists ==
    {<<JumpDesc(a)>> : a \in 0..MaxLabel}
    \cup {<<JumpDesc(a), JumpDesc(b)>> : a \in 0..MaxLabel, b \in 0..(MaxLabel + 1)}
    \cup {<<JumpDesc(a), JumpDesc(b), JumpDesc(c)>> :
             a \in 0..MaxLabel, b \in 0..MaxLabel, c \in 0..MaxLabel}

TableInstrs ==
    {[MkInstr("Br_table") EXCEPT !.LabelList = ll] : ll \in TableLabelLists}
    \cup {[MkInstr(op) EXCEPT !.BlockType = bt, !.JumpEnd = MaxJump,
                              !.JumpElse = MaxJump] :
             op \in {"Block", "Loop"}, bt \in {BTEmpty, BTVal(I64)}}
    \cup {MkInstr(op) : op \in {"Unreachable", "End", "I32__const", "I64__const"}}

ValidateT == Res = "Idle" /\ ValidateOf(1..MaxInstrsT, {<<>>, <<I32>>})

StepT == StepOver(TableInstrs)

NextTable == ValidateT \/ StepT

SpecTable == Init /\ [][NextTable]_vars

(* A checkInstr step over a br_table. *)
TableChecked == Hist'.lastOp = "checkInstr" /\ Instr'.Op = "Br_table"

(* Every label depth of I names a frame of the control stack. *)
DepthsValid(I) ==
    \A k \in 1..Len(I.LabelList) : I.LabelList[k].TargetIndex < Len(CtrlStack)

(* The i32 index operand is there: on top of the operand stack, or the     *)
(* stack is at the floor of an unreachable frame.                          *)
IndexValid ==
    IF Len(ValStack) > Back(CtrlStack).Height
    THEN Back(ValStack) = unreachableVType \/ matchType(I32, Back(ValStack))
    ELSE Back(CtrlStack).IsUnreachable

LabelTypesOf(I, k) ==
    getLabelTypes(CtrlStack[Len(CtrlStack) - I.LabelList[k].TargetIndex])

ArityDiffers(I) ==
    \E k \in 1..(Len(I.LabelList) - 1) :
        Len(LabelTypesOf(I, k)) # Len(LabelTypesOf(I, Len(I.LabelList)))

(* C16: a br_table with a valid i32 index operand and valid label depths,  *)
(* in which an intermediate label's types differ in length from the        *)
(* default label's, fails with TypeCheckFailed, whether the frame is       *)
(* reachable or not.                                                       *)
C16_TableArity ==
    [][(TableChecked /\ DepthsValid(Instr') /\ IndexValid /\ ArityDiffers(Instr'))
       => Res' = "TypeCheckFailed"]_vars

(* Such a br_table was checked in an unreachable frame, after an           *)
(* intermediate label of the default's arity.                              *)
C16_Witness ==
    /\ Hist.lastOp = "checkInstr"
    /\ Instr.Op = "Br_table"
    /\ Res = "TypeCheckFailed"
    /\ Len(Instr.LabelList) = 3
    /\ Len(CtrlStack) = 2
    /\ DepthsValid(Instr)
    /\ Back(CtrlStack).IsUnreachable
    /\ Len(ValStack) = Back(CtrlStack).Height
    /\ LET T(k) == getLabelTypes(CtrlStack[Len(CtrlStack) - Instr.LabelList[k].TargetIndex])
       IN Len(T(1)) = Len(T(3)) /\ Len(T(2)) # Len(T(3))

(* The same in a reachable frame. *)
C16_WitnessReachable ==
    /\ Hist.lastOp = "checkInstr"
    /\ Instr.Op = "Br_table"
    /\ Res = "TypeCheckFailed"
    /\ Len(Instr.LabelList) >= 2
    /\ Len(CtrlStack) = 2
    /\ DepthsValid(Instr)
    /\ ~Back(CtrlStack).IsUnreachable
    /\ Len(ValStack) > Back(CtrlStack).Height
    /\ Back(ValStack) = I32
    /\ LET T(k) == getLabelTypes(CtrlStack[Len(CtrlStack) - Instr.LabelList[k].TargetIndex])
       IN Len(T(1)) # Len(T(Len(Instr.LabelList)))

(* The state of the check after the i32 index was popped and the first k   *)
(* intermediate labels of the br_table I were processed.                   *)
AfterLabels(I, k) ==
    Only({brTableLabels(
              [M1 EXCEPT !.ins.LabelList =
                  SubSeq(I.LabelList, 1, k) \o <<Back(I.LabelList)>>],
              getLabelTypes(M1.cs[Len(M1.cs) - Back(I.LabelList).TargetIndex]),
              1, pc)
          : M1 \in {popTypeE(Enter(I, NoFrame), I32)}})

(* Processing the intermediate labels of I left the operand stack as the   *)
(* pop of the index had left it, entry by entry.                           *)
OperandsKept(I) ==
    \A k \in 1..(Len(I.LabelList) - 1) :
        \A R \in {AfterLabels(I, k)} :
            (R.err = OK /\ ~R.done) => R.vs = AfterLabels(I, 0).vs

(* C17: while a br_table is checked, after each intermediate label the     *)
(* operand stack is what it was before that label, concrete types staying  *)
(* concrete, so that every later label is checked against the same         *)
(* operands.                                                               *)
C17_TableKeepsOperands ==
    [][(TableChecked /\ DepthsValid(Instr') /\ IndexValid)
       => OperandsKept(Instr')]_vars

(* The same for a br_table checked in a frame that is not unreachable. *)
C17_TableKeepsOperands_Reachable ==
    [][(TableChecked /\ DepthsValid(Instr') /\ IndexValid
          /\ ~Back(CtrlStack).IsUnreachable)
       => OperandsKept(Instr')]_vars

(* What C17 is to ensure: a br_table that passes had, below its index, an  *)
(* operand stack whose entries above the floor match the types of every    *)
(* label.                                                                  *)
C17_TableOperandsMatchAll ==
    [][(TableChecked /\ Res' \in {"Running", OK})
       => \A k \in 1..Len(Instr'.LabelList) :
             TopMatches(PopBack(ValStack), Back(CtrlStack).Height,
                        LabelTypesOf(Instr', k))]_vars

-----------------------------------------------------------------------------
(* Properties of the label depths, on the control specification *)

(* The label depths the branch instruction I carries, in the order the     *)
(* check looks at them: for a br_table the default label comes first.      *)
DepthsOf(I) ==
    IF I.Op \in {"Br", "Br_if"} THEN <<I.Jump.TargetIndex>>
    ELSE IF I.Op \in {"Br_on_null", "Br_on_non_null"} THEN <<I.TargetIndex>>
    ELSE IF I.Op = "Br_table"
         THEN <<Back(I.LabelList).TargetIndex>>
              \o [k \in 1..(Len(I.LabelList) - 1) |-> I.LabelList[k].TargetIndex]
    ELSE <<>>

BranchChecked ==
    /\ Hist'.lastOp = "checkInstr"
    /\ Instr'.Op \in {"Br", "Br_if", "Br_table", "Br_on_null", "Br_on_non_null"}

OutOfRange(I) == \E k \in 1..Len(DepthsOf(I)) : DepthsOf(I)[k] >= Len(CtrlStack)

(* C18 as stated: every branch instruction with a label depth              *)
(* N >= |ctrl_stack|, any label of a br_table included, fails with         *)
(* InvalidLabelIdx.                                                        *)
C18_LabelOutOfRange ==
    [][(BranchChecked /\ OutOfRange(Instr')) => Res' = "InvalidLabelIdx"]_vars

(* C18 amended: br, br_if, br_on_null and br_on_non_null with              *)
(* N >= |ctrl_stack| fail with InvalidLabelIdx before anything else is     *)
(* looked at. A br_table with a label out of range always fails, and with  *)
(* InvalidLabelIdx when its i32 index operand is there and the label out   *)
(* of range is the default label or, the default being in range, the       *)
(* first intermediate label; when the pop of the index fails, that error   *)
(* is the result. A branch that passes with depth N has                    *)
(* N < |ctrl_stack| and its pc_offset is taken from the frame              *)
(* ctrl_stack[|ctrl_stack| - 1 - N].                                       *)
C18_LabelDepth ==
    [][BranchChecked =>
        LET I == Instr'
            D == DepthsOf(I)
            Passed == Res' \in {"Running", OK}
        IN /\ (I.Op # "Br_table" /\ OutOfRange(I)) =>
                 (Res' = "InvalidLabelIdx" /\ ValStack' = ValStack)
           /\ (I.Op = "Br_table" /\ OutOfRange(I)) => ~Passed
           /\ (I.Op = "Br_table" /\ Len(CtrlStack) = 0) =>
                 Res' \in {"InvalidLabelIdx", "TypeCheckFailed", "Crash"}
           /\ (I.Op = "Br_table" /\ Len(CtrlStack) > 0 /\ IndexValid
                 /\ (D[1] >= Len(CtrlStack)
                       \/ (Len(D) >= 2 /\ D[2] >= Len(CtrlStack)))) =>
                 Res' = "InvalidLabelIdx"
           /\ (I.Op = "Br_table" /\ Len(CtrlStack) > 0 /\ ~IndexValid) =>
                 Res' = "TypeCheckFailed"
           /\ Passed => ~OutOfRange(I)
           /\ (Passed /\ I.Op \in {"Br", "Br_if", "Br_on_non_null"}) =>
                 I.Jump.PCOffset = CtrlStack[Len(CtrlStack) - D[1]].Jump - pc
           /\ (Passed /\ I.Op = "Br_table") =>
                 \A k \in 1..Len(I.LabelList) :
                     I.LabelList[k].PCOffset =
                         CtrlStack[Len(CtrlStack) - I.LabelList[k].TargetIndex].Jump - pc
    ]_vars

(* A br_table failed with InvalidLabelIdx on an intermediate label, its    *)
(* default label being in range.                                           *)
C18_Witness ==
    /\ Hist.lastOp = "checkInstr"
    /\ Res = "InvalidLabelIdx"
    /\ Instr.Op = "Br_table"
    /\ Len(Instr.LabelList) = 2
    /\ Instr.LabelList[2].TargetIndex < Len(CtrlStack)
    /\ Instr.LabelList[1].TargetIndex >= Len(CtrlStack)

-----------------------------------------------------------------------------
(* Memory specification: memories are added to the populated checker, then *)
(* one validate call checks loads, stores and lane instructions with the   *)
(* alignment exponents and lane indices the decoder may hand over.         *)

Aligns == {0, 1, 2, 3, 4, 5, 31, 32, 33, 2147483647}

Lanes == {0, 1, 2, 3, 4, 7, 8, 15, 16, 255}

MemLaneOps == {op \in MemOps : MemSig(op).Lane}

MemInstrs ==
    {[MkInstr(op) EXCEPT !.TargetIndex = t, !.MemoryAlign = a] :
        op \in MemOps \ MemLaneOps, t \in 0..1, a \in Aligns}
    \cup {[MkInstr(op) EXCEPT !.TargetIndex = t, !.MemoryAlign = a,
                              !.MemoryLane = l] :
             op \in MemLaneOps, t \in 0..1, a \in Aligns, l \in Lanes}
    \cup {[MkInstr(op) EXCEPT !.MemoryLane = l] : op \in LaneOps, l \in Lanes}
    \cup {MkInstr(op) : op \in {"Unreachable", "I32__const", "V128__const", "End"}}

ValidateMem == Res = "Idle" /\ ValidateOf(1..MaxInstrsM, {<<>>})

StepMem == StepOver(MemInstrs)

NextMem == AddMemory \/ ValidateMem \/ StepMem

SpecMem == Init /\ [][NextMem]_vars

(* The width in bits of the memory access of an instruction, as its name   *)
(* gives it.                                                               *)
AccessBits(op) ==
    IF op \in {"I32__load8_s", "I32__load8_u", "I64__load8_s", "I64__load8_u",
               "I32__store8", "I64__store8", "V128__load8_splat",
               "V128__load8_lane", "V128__store8_lane",
               "I32__atomic__load8_u", "I64__atomic__load8_u"} THEN 8
    ELSE IF op \in {"I32__load16_s", "I32__load16_u", "I64__load16_s",
                    "I64__load16_u", "I32__store16", "I64__store16",
                    "V128__load16_splat", "V128__load16_lane",
                    "V128__store16_lane", "I32__atomic__load16_u",
                    "I64__atomic__load16_u"} THEN 16
    ELSE IF op \in {"I32__load", "F32__load", "I64__load32_s", "I64__load32_u",
                    "I32__store", "F32__store", "I64__store32",
                    "V128__load32_splat", "V128__load32_zero",
                    "V128__load32_lane", "V128__store32_lane",
                    "Memory__atomic__notify", "Memory__atomic__wait32",
                    "I32__atomic__load", "I64__atomic__load32_u",
                    "I32__atomic__store", "I32__atomic__rmw__add",
                    "I32__atomic__rmw__cmpxchg"} THEN 32
    ELSE IF op \in {"V128__load", "V128__store"} THEN 128
    ELSE 64

(* log2(N / 8) for the access widths. *)
AlignLog2(N) ==
    CASE N = 8 -> 0 [] N = 16 -> 1 [] N = 32 -> 2 [] N = 64 -> 3 [] N = 128 -> 4

AlignOK(I) == I.MemoryAlign \in 0..AlignLog2(AccessBits(I.Op))

(* C19: a load or store of access width N bits with a valid memory index   *)
(* passes the alignment check iff its exponent a has a <= 31 and           *)
(* 2^a <= N/8, that is a <= log2(N/8); every larger a, however large, is   *)
(* rejected with InvalidAlignment.                                         *)
C19_Alignment ==
    [][(/\ Hist'.lastOp = "checkInstr"
        /\ Instr'.Op \in MemOps
        /\ Instr'.TargetIndex < Mems)
       => ((Res' = "InvalidAlignment") <=> ~AlignOK(Instr'))]_vars

(* A 128-bit load with exponent log2(128/8) = 4 passed. *)
C19_Witness ==
    /\ Hist.lastOp = "checkInstr"
    /\ Instr.Op = "V128__load"
    /\ Instr.TargetIndex < Mems
    /\ Instr.MemoryAlign = 4
    /\ Res \in {"Running", OK}

(* An access with exponent 32 was rejected. *)
C19_WitnessWrap ==
    /\ Hist.lastOp = "checkInstr"
    /\ Instr.Op \in MemOps
    /\ Instr.TargetIndex < Mems
    /\ Instr.MemoryAlign = 32
    /\ Res = "InvalidAlignment"

(* The number of lanes of the shape an extract_lane/replace_lane names. *)
ShapeLanes(op) ==
    IF op \in {"I8x16__extract_lane_s", "I8x16__extract_lane_u",
               "I8x16__replace_lane"} THEN 16
    ELSE IF op \in {"I16x8__extract_lane_s", "I16x8__extract_lane_u",
                    "I16x8__replace_lane"} THEN 8
    ELSE IF op \in {"I32x4__extract_lane", "I32x4__replace_lane",
                    "F32x4__extract_lane", "F32x4__replace_lane"} THEN 4
    ELSE 2

LaneBound(op) == IF op \in LaneOps THEN ShapeLanes(op) ELSE 128 \div AccessBits(op)

(* C20: a lane load/store of width N with valid memory index and alignment *)
(* fails with InvalidLaneIdx iff its lane index is >= 128/N, and an        *)
(* extract_lane/replace_lane iff its lane index is >= the lane count of    *)
(* its shape; every lane index below the bound passes the lane check.      *)
C20_LaneIndex ==
    [][(/\ Hist'.lastOp = "checkInstr"
        /\ \/ Instr'.Op \in LaneOps
           \/ (Instr'.Op \in MemLaneOps /\ Instr'.TargetIndex < Mems
                 /\ AlignOK(Instr')))
       => ((Res' = "InvalidLaneIdx")
             <=> Instr'.MemoryLane >= LaneBound(Instr'.Op))]_vars

(* A 64-bit lane load on the last lane passed. *)
C20_Witness ==
    /\ Hist.lastOp = "checkInstr"
    /\ Instr.Op = "V128__load64_lane"
    /\ Instr.TargetIndex < Mems
    /\ Instr.MemoryAlign = 3
    /\ Instr.MemoryLane = 1
    /\ Res \in {"Running", OK}

(* An extract_lane on the lane count of its shape was rejected. *)
C20_WitnessBound ==
    /\ Hist.lastOp = "checkInstr"
    /\ Instr.Op = "I16x8__extract_lane_u"
    /\ Instr.MemoryLane = 8
    /\ Res = "InvalidLaneIdx"

-----------------------------------------------------------------------------
(* The shuffle immediate (SpecShuffle)                                     *)

(* Lane bytes on both sides of 32, and of every bit of the mask. *)
ShuffleBytes == {0, 31, 32, 33, 64, 128, 255}

(* Immediates: one byte of a uniform immediate replaced, at any place. *)
ShuffleImms ==
    {[i \in 1..U128Bytes |-> IF i = p THEN v ELSE b] :
        p \in 1..U128Bytes, v \in ShuffleBytes, b \in {0, 31, 32}}

ShuffleInstrs ==
    {[MkInstr("I8x16__shuffle") EXCEPT !.Num = n] : n \in ShuffleImms}
    \cup {MkInstr(op) : op \in {"Unreachable", "I32__const", "V128__const", "End"}}

ValidateS == Res = "Idle" /\ ValidateOf(1..MaxInstrsS, {<<V128>>})

StepS == StepOver(ShuffleInstrs)

NextShuffle == ValidateS \/ StepS

SpecShuffle == Init /\ [][NextShuffle]_vars

(* C21: i8x16.shuffle is rejected with InvalidLaneIdx iff one of the 16    *)
(* bytes of its immediate is >= 32: the masking test agrees with the       *)
(* per-byte comparison for every immediate.                                *)
C21_ShuffleLanes ==
    [][(Hist'.lastOp = "checkInstr" /\ Instr'.Op = "I8x16__shuffle")
       => ((Res' = "InvalidLaneIdx")
             <=> \E i \in 1..U128Bytes : Instr'.Num[i] >= 32)]_vars

(* A shuffle whose largest lane byte is 31 passed, on two vectors. *)
C21_Witness ==
    /\ Hist.lastOp = "checkInstr"
    /\ Instr.Op = "I8x16__shuffle"
    /\ \E i \in 9..U128Bytes : Instr.Num[i] = 31
    /\ Res \in {"Running", OK}
    /\ Len(ValStack) = 1 /\ ValStack[1] = V128

(* A shuffle with the lane byte 32 in its upper half was rejected. *)
C21_WitnessHigh ==
    /\ Hist.lastOp = "checkInstr"
    /\ Instr.Op = "I8x16__shuffle"
    /\ \E i \in 9..U128Bytes : Instr.Num[i] = 32
    /\ \A i \in 1..8 : Instr.Num[i] < 32
    /\ Res = "InvalidLaneIdx"

-----------------------------------------------------------------------------
(* Data segment indices (SpecData)                                         *)

(* Indices below, at and above the counts MaxAdds allows, and a large one. *)
DataIdxs == {0, 1, 2, 3, 2147483647}

DataInstrs ==
    {[MkInstr("Memory__init") EXCEPT !.TargetIndex = t, !.SourceIndex = s] :
        t \in {0, 1, 2}, s \in DataIdxs}
    \cup {[MkInstr("Data__drop") EXCEPT !.TargetIndex = t] : t \in DataIdxs}
    \cup {MkInstr(op) : op \in {"Unreachable", "I32__const", "End"}}

ValidateD == Res = "Idle" /\ ValidateOf(1..MaxInstrsD, {<<>>})

StepD == StepOver(DataInstrs)

NextData == AddMemory \/ AddData \/ ValidateD \/ StepD

SpecData == Init /\ [][NextData]_vars

DataChecked == Hist'.lastOp = "checkInstr" /\ Instr'.Op \in {"Memory__init", "Data__drop"}

(* The data segment index of the instruction. *)
DataIdxOf(I) == IF I.Op = "Memory__init" THEN I.SourceIndex ELSE I.TargetIndex

(* C22 as stated: memory.init and data.drop whose data segment index is    *)
(* >= |datas| fail with InvalidDataIdx.                                    *)
C22_DataIdx ==
    [][(DataChecked /\ DataIdxOf(Instr') >= Len(Datas))
       => Res' = "InvalidDataIdx"]_vars

(* C22 amended: data.drop fails with InvalidDataIdx iff its index is       *)
(* >= |datas|; memory.init fails with InvalidDataIdx iff its memory index  *)
(* is < mems and its data index is >= |datas|, and with InvalidMemoryIdx   *)
(* iff its memory index is >= mems, whatever its data index.               *)
C22_DataIdxAfterMemory ==
    [][DataChecked
       => /\ (Res' = "InvalidDataIdx")
               <=> /\ DataIdxOf(Instr') >= Len(Datas)
                   /\ Instr'.Op = "Memory__init" => Instr'.TargetIndex < Mems
          /\ (Res' = "InvalidMemoryIdx")
               <=> (Instr'.Op = "Memory__init" /\ Instr'.TargetIndex >= Mems)]_vars

(* A memory.init on a declared memory with data index |datas| = 1 failed   *)
(* with InvalidDataIdx.                                                    *)
C22_Witness ==
    /\ Hist.lastOp = "checkInstr"
    /\ Instr.Op = "Memory__init"
    /\ Instr.TargetIndex < Mems
    /\ Len(Datas) = 1 /\ Instr.SourceIndex = 1
    /\ Res = "InvalidDataIdx"

(* A data.drop with index |datas| = 2 failed with InvalidDataIdx. *)
C22_WitnessDrop ==
    /\ Hist.lastOp = "checkInstr"
    /\ Instr.Op = "Data__drop"
    /\ Len(Datas) = 2 /\ Instr.TargetIndex = 2
    /\ Res = "InvalidDataIdx"

(* A memory.init on declared memory and data passed. *)
C22_WitnessPass ==
    /\ Hist.lastOp = "checkInstr"
    /\ Instr.Op = "Memory__init"
    /\ Instr.TargetIndex < Mems /\ Instr.SourceIndex < Len(Datas)
    /\ Res \in {"Running", OK}

-----------------------------------------------------------------------------
(* The error kind of a failed operand pop (Spec)                           *)

(* The instructions of the control alphabet that begin by popping their    *)
(* operands, once their label and label types passed their own checks.     *)
PopsOperands(I) ==
    /\ Len(CtrlStack) > 0
    /\ I.Op \in {"Br", "Br_if", "Br_on_null", "Br_on_non_null", "Br_table",
                 "Return", "Drop"}
    /\ I.Op \in {"Br", "Br_if"} => I.Jump.TargetIndex < Len(CtrlStack)
    /\ I.Op \in {"Br_on_null", "Br_on_non_null"} => I.TargetIndex < Len(CtrlStack)
    /\ I.Op = "Br_on_non_null" =>
          \E L \in {getLabelTypes(CtrlStack[Len(CtrlStack) - I.TargetIndex])} :
             /\ Len(L) > 0
             /\ isRefType(Back(L)) /\ ~isNullableRefType(Back(L))

(* The operand pops of the instruction I made on the state before it. *)
OperandPops(I) ==
    LET M == Enter(I, NoFrame)
        N == IF I.Op \in {"Br", "Br_if"} THEN I.Jump.TargetIndex ELSE I.TargetIndex
        L == getLabelTypes(CtrlStack[Len(CtrlStack) - N])
    IN CASE I.Op = "Br" -> popTypes(M, L)
         [] I.Op = "Br_if" -> popTypes(popTypeE(M, I32), L)
         [] I.Op = "Br_table" -> popTypeE(M, I32)
         [] I.Op = "Return" -> popTypes(M, Returns)
         [] I.Op = "Drop" -> popType(M)
         [] I.Op = "Br_on_null" ->
              Only({IF T.err # OK \/ T.top = unreachableVType \/ ~isRefType(T.top)
                    THEN T ELSE popTypes(T, L) : T \in {popType(M)}})
         [] I.Op = "Br_on_non_null" ->
              popTypes(popTypeE(M, RefT("RefNull", Back(L).Heap, Back(L).Idx)),
                       PopBack(L))

PopFailed == 
    /\ Hist'.lastOp = "checkInstr"
    /\ PopsOperands(Instr')
    /\ OperandPops(Instr').err # OK

(* C23: an instruction that fails because popping one of its operands      *)
(* underflows the frame or yields a type that does not match the expected  *)
(* one returns TypeCheckFailed, br_on_null and br_on_non_null included.    *)
C23_PopFailureKind == [][PopFailed => Res' = "TypeCheckFailed"]_vars

(* Every failed operand pop of an instruction other than br_on_non_null is *)
(* reported as TypeCheckFailed, and those of br_on_non_null always as      *)
(* InvalidBrRefType.                                                       *)
C23_PopFailureKind_Others ==
    [][PopFailed => Res' = IF Instr'.Op = "Br_on_non_null"
                           THEN "InvalidBrRefType" ELSE "TypeCheckFailed"]_vars

(* A br_on_null failed on an empty frame. *)
C23_WitnessNull ==
    /\ Hist.lastOp = "checkInstr"
    /\ Instr.Op = "Br_on_null"
    /\ Res = "TypeCheckFailed"

-----------------------------------------------------------------------------
(* Matching of type-index references (SpecMatch)                           *)

(* The function types a type section may declare: with and without         *)
(* references, nullable and not, to abstract heap types and to type        *)
(* indices (its own or another's).                                         *)
FuncTypePool ==
    {FnType(<<>>, <<>>), FnType(<<I32>>, <<>>),
     FnType(<<FuncRefNull>>, <<>>), FnType(<<FuncRefNN>>, <<>>),
     FnType(<<>>, <<FuncRefNull>>), FnType(<<>>, <<FuncRefNN>>),
     FnType(<<RefIdxNull(0)>>, <<>>), FnType(<<RefIdxNull(1)>>, <<>>)}

AddTypeX == \E F \in FuncTypePool : AddCall(addType(F), "addType")

(* validate(ValType) passed for every value type of the type table. *)
TypesValid ==
    \A k \in 1..Len(Types) :
       /\ \A p \in 1..Len(Types[k].first) : validateVT(Types[k].first[p]) = OK
       /\ \A p \in 1..Len(Types[k].second) : validateVT(Types[k].second[p]) = OK

(* Result types of the function checked: a reference to a declared type. *)
MatchRets ==
    {<<RefT(c, "TypeIndex", j)>> : c \in {"RefNull", "Ref"},
                                   j \in 0..(Len(Types) - 1)}

MatchInstrs ==
    {[MkInstr("Ref__null") EXCEPT !.ValType = RefIdxNull(i)] : i \in 0..(MaxAdds - 1)}
    \cup {MkInstr(op) : op \in {"Ref__as_non_null", "Return", "End"}}

ValidateX == Res = "Idle" /\ TypesValid /\ ValidateOf(1..MaxInstrsX, MatchRets)

StepX == StepOver(MatchInstrs)

NextMatch == AddTypeX \/ ValidateX \/ StepX

SpecMatch == InitFresh /\ [][NextMatch]_vars

(* Structural equality of value types and of function types over Types,    *)
(* type indices compared by the types they name.                           *)
RECURSIVE SameValType(_, _, _)
SameValType(A, B, fuel) ==
    IF isRefType(A) /\ isRefType(B) /\ A.Heap = "TypeIndex" /\ B.Heap = "TypeIndex"
    THEN /\ A.Code = B.Code
         /\ \/ A.Idx = B.Idx
            \/ /\ fuel > 0
               /\ \E F \in {Types[A.Idx + 1]}, G \in {Types[B.Idx + 1]} :
                     /\ Len(F.first) = Len(G.first)
                     /\ Len(F.second) = Len(G.second)
                     /\ \A p \in 1..Len(F.first) :
                           SameValType(F.first[p], G.first[p], fuel - 1)
                     /\ \A p \in 1..Len(F.second) :
                           SameValType(F.second[p], G.second[p], fuel - 1)
    ELSE A = B

(* A return whose only operand and only result type are references to      *)
(* type indices of equal nullability: it calls matchType(result, operand). *)
MatchesIndices ==
    /\ Hist'.lastOp = "checkInstr"
    /\ Instr'.Op = "Return"
    /\ Len(CtrlStack) > 0 /\ Back(CtrlStack).Height = 0
    /\ Len(ValStack) = 1 /\ Len(Returns) = 1
    /\ ValStack[1].Heap = "TypeIndex"
    /\ ValStack[1].Code = Returns[1].Code

(* C24: matching between two type-index references of equal nullability   *)
(* is invariant: match_type(ref i, ref j) holds iff the function types i   *)
(* and j are structurally equal (wherever the matching comes to an end).   *)
C24_IndexMatchInvariant ==
    [][(MatchesIndices /\ Res' # "StackOverflow")
       => ((Res' # "TypeCheckFailed")
             <=> SameValType(Returns[1], ValStack[1], MatchFuel))]_vars

(* C24, second half: wherever the matching of type-index references comes  *)
(* to an end, match_type(ref i, ref j) implies match_type(ref j, ref i).   *)
C24_IndexMatchSymmetric ==
    TypesValid =>
       \A i \in 0..(Len(Types) - 1), j \in 0..(Len(Types) - 1) :
          matchTypeR(Types, RefIdxNull(i), RefIdxNull(j), MatchFuel) = "T"
             => matchTypeR(Types, RefIdxNull(j), RefIdxNull(i), MatchFuel) # "F"

(* The type indices the function type at index k refers to. *)
IndicesOf(k) ==
    {Types[k + 1].first[p].Idx :
        p \in {q \in 1..Len(Types[k + 1].first) :
                  Types[k + 1].first[q].Heap = "TypeIndex"}}
    \cup {Types[k + 1].second[p].Idx :
             p \in {q \in 1..Len(Types[k + 1].second) :
                       Types[k + 1].second[q].Heap = "TypeIndex"}}

RECURSIVE ReachedFrom(_, _)
ReachedFrom(S, n) ==
    IF n = 0 THEN S
    ELSE ReachedFrom(S \cup UNION {IndicesOf(k) : k \in S}, n - 1)

(* Some function type refers to its own index, directly or through others. *)
CyclicTypes ==
    \E k \in 0..(Len(Types) - 1) : k \in ReachedFrom(IndicesOf(k), Len(Types))

(* C25: match_type(expected, got) terminates for every pair of value types *)
(* over every type table the type section admits, with recursion depth at  *)
(* most the number of declared types, also when a function type refers to  *)
(* its own type index or to a type that refers back to it.                 *)
C25_MatchTerminates ==
    [][MatchesIndices
       => /\ matchTypeR(Types, Returns[1], ValStack[1], Len(Types)) # "Deep"
          /\ Res' # "StackOverflow"]_vars

(* Over a type table in which no function type refers back to itself the   *)
(* matching ends within a recursion depth of the number of declared types. *)
C25_MatchTerminates_Acyclic ==
    [][(MatchesIndices /\ ~CyclicTypes)
       => /\ matchTypeR(Types, Returns[1], ValStack[1], Len(Types)) # "Deep"
          /\ Res' # "StackOverflow"]_vars

(* A match over a type table without cycles went two type indices deep. *)
C25_WitnessDeep ==
    /\ Hist.lastOp = "checkInstr"
    /\ Instr.Op = "Return"
    /\ Res = OK
    /\ ~CyclicTypes
    /\ Len(Types) = 2
    /\ Len(Returns) = 1 /\ Returns[1].Idx = 1
    /\ IndicesOf(1) = {0}

-----------------------------------------------------------------------------
(* The function table (SpecFuncs): add_type, add_func and reset in any     *)
(* order on a fresh checker, and bodies that call.                         *)

AddCallF(call, op) ==
    /\ Res = "Idle"
    /\ Hist.adds < MaxAddsF
    /\ call
    /\ Hist' = HistAdd(op)
    /\ UNCHANGED <<scratch, driver>>

AddTypeF == AddCallF(addType(FnType(<<>>, <<I32>>)), "addType")

AddFuncF ==
    \E TypeIdx \in 0..MaxTypeIdxF, IsImport \in BOOLEAN :
       AddCallF(addFunc(TypeIdx, IsImport), "addFunc")

FuncsInstrs ==
    {MkInstr("End")}
    \cup {[MkInstr("Call") EXCEPT !.TargetIndex = f] : f \in 0..MaxTypeIdxF}

StepF == StepOver(FuncsInstrs)

NextFuncs == AddTypeF \/ AddFuncF \/ Reset \/ ValidateM \/ StepF

SpecFuncs == InitFresh /\ [][NextFuncs]_vars

(* C26: after any sequence of add_type, add_func and reset calls every     *)
(* entry of the function table is a valid index into the type table, so    *)
(* call f with f < |funcs| never reads a type out of range.                *)
C26_FuncsInTypes ==
    /\ \A k \in 1..Len(Funcs) : Funcs[k] < Len(Types)
    /\ (Hist.lastOp = "checkInstr" /\ Instr.Op = "Call") => Res # "Crash"

(* A call passed after a reset, on a checker some of whose add calls left   *)
(* no entry behind (cleared by reset(true), or an add_func refused).       *)
C26_Witness ==
    /\ Hist.lastOp = "checkInstr"
    /\ Instr.Op = "Call"
    /\ Res \in {"Running", OK}
    /\ Hist.resets > 0
    /\ Hist.adds > Len(Types) + Len(Funcs)

-----------------------------------------------------------------------------
(* Instructions that end the straight-line code (SpecExit)                 *)

ExitOps == {"Unreachable", "Br", "Br_table", "Return", "Return_call",
            "Return_call_indirect", "Return_call_ref"}

ExitInstrs ==
    {[MkInstr("Br") EXCEPT !.Jump = JumpDesc(n)] : n \in 0..MaxLabel}
    \cup {[MkInstr("Br_table") EXCEPT !.LabelList = <<JumpDesc(n)>>] :
             n \in 0..MaxLabel}
    \cup {[MkInstr(op) EXCEPT !.TargetIndex = n] :
             op \in {"Return_call", "Return_call_indirect", "Return_call_ref"},
             n \in 0..1}
    \cup {[MkInstr("Block") EXCEPT !.BlockType = bt, !.JumpEnd = MaxJump,
                                   !.JumpElse = MaxJump] :
             bt \in {BTEmpty, BTVal(I32)}}
    \cup {[MkInstr("Ref__null") EXCEPT !.ValType = RefIdxNull(0)]}
    \cup {MkInstr(op) : op \in {"Unreachable", "Return", "End", "I32__const"}}

AddTableP == Tables = <<>> /\ AddTable

ValidateP == Res = "Idle" /\ ValidateOf(1..MaxInstrsP, {<<I32>>})

StepP == StepOver(ExitInstrs)

NextExit == AddTableP \/ ValidateP \/ StepP

SpecExit == Init /\ [][NextExit]_vars

ExitPassed ==
    /\ Hist'.lastOp = "checkInstr"
    /\ Instr'.Op \in ExitOps
    /\ Res' \in {"Running", OK}

(* The operand stack is cut to the top frame's height, the top frame is    *)
(* marked unreachable, the frames below it and the depth stay.             *)
ExitEffect ==
    /\ Len(CtrlStack) > 0
    /\ Len(CtrlStack') = Len(CtrlStack)
    /\ Len(ValStack) >= Back(CtrlStack).Height
    /\ ValStack' = SubSeq(ValStack, 1, Back(CtrlStack).Height)
    /\ Back(CtrlStack').IsUnreachable
    /\ PopBack(CtrlStack') = PopBack(CtrlStack)

(* C27: after every successfully checked unreachable, br, br_table,        *)
(* return, return_call, return_call_indirect and return_call_ref the       *)
(* operand stack is truncated to exactly the top frame's height and the    *)
(* top frame's unreachable flag is set, while the control-stack depth and  *)
(* all enclosing frames are unchanged.                                     *)
C27_ExitTruncates == [][ExitPassed => ExitEffect]_vars

(* The same wherever the control stack holds a frame when the instruction  *)
(* is checked; there the top frame changes in its unreachable flag only.   *)
C27_ExitTruncates_Framed ==
    [][(ExitPassed /\ Len(CtrlStack) > 0)
       => /\ ExitEffect
          /\ Back(CtrlStack') = [Back(CtrlStack) EXCEPT !.IsUnreachable = TRUE]]_vars

(* A return_call_ref passed inside a block, cutting operands of the block. *)
C27_WitnessFramed ==
    /\ Hist.lastOp = "checkInstr"
    /\ Instr.Op = "Return_call_ref"
    /\ Res = "Running"
    /\ Len(CtrlStack) = 2
    /\ Back(CtrlStack).IsUnreachable /\ ~CtrlStack[1].IsUnreachable
    /\ ValStack = <<>>

-----------------------------------------------------------------------------
(* The arms of an if (SpecElse): block types with parameters and results,  *)
(* one local that is not defaultable, arms that become unreachable.        *)

ElseBlockTypes == {BTEmpty, BTVal(I32), BTIdx(0)}

ElseInstrs ==
    {[MkInstr("If") EXCEPT !.BlockType = bt, !.JumpEnd = MaxJump, !.JumpElse = 1] :
        bt \in ElseBlockTypes}
    \cup {[MkInstr("If") EXCEPT !.BlockType = bt, !.JumpEnd = MaxJump,
                                !.JumpElse = MaxJump] : bt \in ElseBlockTypes}
    \cup {[MkInstr("Block") EXCEPT !.BlockType = BTVal(I32), !.JumpEnd = MaxJump,
                                   !.JumpElse = MaxJump]}
    \cup {[MkInstr(op) EXCEPT !.TargetIndex = 0] :
             op \in {"Local__set", "Ref__func"}}
    \cup {MkInstr(op) : op \in {"Else", "End", "I32__const", "Unreachable"}}

AddLocalEl == Res = "Idle" /\ Locals = <<>> /\ AddLocalOf({<<FuncRefNN, FALSE>>})

ValidateEl == Res = "Idle" /\ ValidateOf(1..MaxInstrsEl, {<<>>})

StepEl == StepOver(ElseInstrs)

NextElse == AddLocalEl \/ ValidateEl \/ StepEl

SpecElse == Init /\ [][NextElse]_vars

(* The operands above the frame's height are the frame's end types: as     *)
(* many and matching in a reachable frame, the topmost of them (or         *)
(* Unknown entries) in an unreachable one.                                 *)
LeavesEndTypes(F) ==
    \E n \in {Len(ValStack) - F.Height} :
       /\ n >= 0 /\ n <= Len(F.EndTypes)
       /\ ~F.IsUnreachable => n = Len(F.EndTypes)
       /\ \A k \in 1..n :
             \/ ValStack[F.Height + k] = unreachableVType
             \/ matchType(F.EndTypes[Len(F.EndTypes) - n + k],
                          ValStack[F.Height + k])

ElsePassed ==
    /\ Hist'.lastOp = "checkInstr"
    /\ Instr'.Op = "Else"
    /\ Res' \in {"Running", OK}

(* C28: else succeeds only if the then-arm leaves exactly the frame's      *)
(* end_types above the frame's height; after it the top frame has the      *)
(* start_types, end_types, jump anchor and height of the popped frame,     *)
(* opcode Else and unreachable = false, the operand stack is height +      *)
(* start_types, and every local first initialized in the then-arm is       *)
(* uninitialized again (those initialized before it still are).            *)
C28_ElseFrame ==
    [][ElsePassed
       => /\ Len(CtrlStack) > 0
          /\ LeavesEndTypes(Back(CtrlStack))
          /\ Len(CtrlStack') = Len(CtrlStack)
          /\ PopBack(CtrlStack') = PopBack(CtrlStack)
          /\ Back(CtrlStack').StartTypes = Back(CtrlStack).StartTypes
          /\ Back(CtrlStack').EndTypes = Back(CtrlStack).EndTypes
          /\ Back(CtrlStack').Jump = Back(CtrlStack).Jump
          /\ Back(CtrlStack').Height = Back(CtrlStack).Height
          /\ Back(CtrlStack').Code = "Else"
          /\ ~Back(CtrlStack').IsUnreachable
          /\ ValStack' = SubSeq(ValStack, 1, Back(CtrlStack).Height)
                            \o Back(CtrlStack).StartTypes
          /\ \A i \in Hist'.pop.flips : ~Locals'[i + 1].IsInit
          /\ \A i \in Hist'.pop.entryInit : Locals'[i + 1].IsInit]_vars

(* An else passed after a then-arm that initialized the local, into an     *)
(* else-arm with a parameter on the operand stack.                         *)
C28_Witness ==
    /\ Hist.lastOp = "checkInstr"
    /\ Instr.Op = "Else"
    /\ Res \in {"Running", OK}
    /\ Hist.pop.flips = {0}
    /\ ~Locals[1].IsInit
    /\ Back(CtrlStack).StartTypes = <<I32>>
    /\ ValStack = <<I32>>

-----------------------------------------------------------------------------
(* The if without an else arm (SpecIf)                                     *)

(* Function types whose parameters and results match in one direction only. *)
IfTypePool == {FnType(<<FuncRefNull>>, <<FuncRefNN>>),
               FnType(<<FuncRefNN>>, <<FuncRefNull>>)}

AddTypeI == \E F \in IfTypePool : AddCall(addType(F), "addType")

IfBlockTypes == {BTEmpty, BTVal(I32)} \cup {BTIdx(i) : i \in 0..3}

IfInstrs ==
    {[MkInstr("If") EXCEPT !.BlockType = bt, !.JumpEnd = MaxJump, !.JumpElse = je] :
        bt \in IfBlockTypes, je \in {1, MaxJump}}
    \cup {[MkInstr("Ref__null") EXCEPT !.ValType = FuncRefNull]}
    \cup {MkInstr(op) : op \in {"Ref__as_non_null", "I32__const", "Unreachable",
                                "End"}}

ValidateI == Res = "Idle" /\ ValidateOf(1..MaxInstrsI, {<<>>})

StepI == StepOver(IfInstrs)

NextIf == AddTypeI \/ ValidateI \/ StepI

SpecIf == Init /\ [][NextIf]_vars

(* An if whose block type is a declared one was checked. *)
IfChecked ==
    /\ Hist'.lastOp = "checkInstr"
    /\ Instr'.Op = "If"
    /\ checkBlockType(Instr'.BlockType).err = OK

NoElseArm(I) == I.JumpElse = I.JumpEnd

IfSignatureFits(I) ==
    matchTypes(checkBlockType(I.BlockType).T2, checkBlockType(I.BlockType).T1)

(* The condition and the parameters of the if are there to be popped. *)
IfOperandsThere(I) ==
    popTypes(popTypeE(Enter(I, NoFrame), I32), checkBlockType(I.BlockType).T1).err = OK

(* C29: an if with no else-arm (else-offset equal to end-offset) whose     *)
(* block type [in] -> [out] does not satisfy match_types(out, in) is       *)
(* rejected with TypeCheckFailed at the if instruction itself; an if that  *)
(* has an else-arm is not subject to this check.                           *)
C29_IfWithoutElse ==
    [][IfChecked
       => /\ (NoElseArm(Instr') /\ ~IfSignatureFits(Instr'))
                => Res' = "TypeCheckFailed"
          /\ (~NoElseArm(Instr') /\ Len(CtrlStack) > 0)
                => (Res' \in {"Running", OK} <=> IfOperandsThere(Instr'))]_vars

(* The same for an if checked with a frame on the control stack, where     *)
(* also an if without else-arm whose block type fits passes iff its        *)
(* operands are there.                                                     *)
C29_IfWithoutElse_Framed ==
    [][(IfChecked /\ Len(CtrlStack) > 0)
       => /\ (NoElseArm(Instr') /\ ~IfSignatureFits(Instr'))
                => Res' = "TypeCheckFailed"
          /\ (~NoElseArm(Instr') \/ IfSignatureFits(Instr'))
                => (Res' \in {"Running", OK} <=> IfOperandsThere(Instr'))]_vars

(* An if without else-arm of type [funcref] -> [(ref func)] was rejected   *)
(* with its operands on the stack.                                         *)
C29_Witness ==
    /\ Hist.lastOp = "checkInstr"
    /\ Instr.Op = "If"
    /\ NoElseArm(Instr)
    /\ Instr.BlockType = BTIdx(2)
    /\ Len(Types) >= 3
    /\ Types[3] = FnType(<<FuncRefNull>>, <<FuncRefNN>>)
    /\ Res = "TypeCheckFailed"
    /\ Len(CtrlStack) = 1 /\ ~CtrlStack[1].IsUnreachable
    /\ ValStack = <<FuncRefNull, I32>>

(* An if with an else-arm of the same type passed. *)
C29_WitnessElse ==
    /\ Hist.lastOp = "checkInstr"
    /\ Instr.Op = "If"
    /\ ~NoElseArm(Instr)
    /\ checkBlockType(Instr.BlockType).err = OK
    /\ ~IfSignatureFits(Instr)
    /\ Res \in {"Running", OK}

(* An end or else was checked with a frame on the control stack. *)
FrameClosed ==
    /\ Hist'.lastOp = "checkInstr"
    /\ Instr'.Op \in {"End", "Else"}
    /\ Len(CtrlStack) > 0

(* More operands above the top frame's height than the frame has end       *)
(* types: popping the end types cannot bring the stack down to the height. *)
Surplus == Len(ValStack) - Back(CtrlStack).Height > Len(Back(CtrlStack).EndTypes)

(* C30: end and else fail with TypeCheckFailed whenever, after popping the *)
(* frame's end_types, the operand-stack size differs from the frame's      *)
(* height, in an unreachable frame too (concrete operands left above the   *)
(* results are rejected); on any failure of end or else the control stack  *)
(* is not popped.                                                          *)
C30_HeightChecked ==
    [][FrameClosed
       => /\ Surplus => Res' = "TypeCheckFailed"
          /\ Res' \notin {"Running", OK}
                => (Res' = "TypeCheckFailed" /\ CtrlStack' = CtrlStack)
          /\ Res' \in {"Running", OK}
                => /\ LeavesEndTypes(Back(CtrlStack))
                   /\ PopBack(CtrlStack) = PopBack(CtrlStack')
                         \/ PopBack(CtrlStack) = CtrlStack']_vars

(* An end was rejected in an unreachable block frame that held two i32     *)
(* above its height for its single result, and the frame is still there.   *)
C30_Witness ==
    /\ Hist.lastOp = "checkInstr"
    /\ Instr.Op = "End"
    /\ Res = "TypeCheckFailed"
    /\ Len(CtrlStack) = 2
    /\ Back(CtrlStack).IsUnreachable
    /\ Back(CtrlStack).EndTypes = <<I32>>
    /\ Len(ValStack) = Back(CtrlStack).Height + 1
    /\ Back(ValStack) = I32

-----------------------------------------------------------------------------
(* Nested frames of an unreachable frame (control specification) *)

Min(a, b) == IF a < b THEN a ELSE b

(* The operands a block/loop/if takes: its parameters, and above them the   *)
(* condition of an if.                                                      *)
BlockInputs(I) ==
    checkBlockType(I.BlockType).T1 \o (IF I.Op = "If" THEN <<I32>> ELSE <<>>)

(* A block/loop/if was checked with success inside an unreachable frame. *)
OpenedInUnreachable ==
    /\ Hist'.lastOp = "checkInstr"
    /\ Instr'.Op \in {"If", "Block", "Loop"}
    /\ Res' \in {"Running", OK}
    /\ Len(CtrlStack) > 0
    /\ Back(CtrlStack).IsUnreachable

(* The top frame is reachable, sits in an unreachable frame, and the       *)
(* operand stack is at its floor.                                          *)
NestedFloor ==
    /\ Len(CtrlStack) >= 2
    /\ ~Back(CtrlStack).IsUnreachable
    /\ CtrlStack[Len(CtrlStack) - 1].IsUnreachable
    /\ Len(ValStack) = Back(CtrlStack).Height

(* C31: a frame opened by block/loop/if inside an unreachable frame is not *)
(* unreachable and its Height is the size of the operand stack after the   *)
(* instruction's inputs were popped; at the floor of such a frame a pop    *)
(* fails with TypeCheckFailed; no checked instruction changes a frame      *)
(* below the top one, so after the nested frame's `end` the enclosing      *)
(* frame is the top frame again and is still unreachable.                  *)
C31_NestedFrameReachable ==
    [][
        /\ OpenedInUnreachable =>
            /\ Len(CtrlStack') = Len(CtrlStack) + 1
            /\ ~Back(CtrlStack').IsUnreachable
            /\ Back(CtrlStack').Height =
                  Len(ValStack) - Min(Len(BlockInputs(Instr')),
                                      Len(ValStack) - Back(CtrlStack).Height)
            /\ Len(ValStack') = Back(CtrlStack').Height
                                   + Len(Back(CtrlStack').StartTypes)
        /\ (Hist'.lastOp = "checkInstr" /\ NestedFloor) =>
            /\ popType(Here).err = "TypeCheckFailed"
            /\ \A t \in ValTypeSet : popTypeE(Here, t).err = "TypeCheckFailed"
            /\ (Instr'.Op = "Drop" => Res' = "TypeCheckFailed")
        /\ Hist'.lastOp = "checkInstr" =>
            \A k \in 1..(Len(CtrlStack) - 1) :
                k <= Len(CtrlStack') /\ CtrlStack'[k] = CtrlStack[k]
        /\ (/\ Hist'.lastOp = "checkInstr" /\ Instr'.Op = "End"
            /\ Res' \in {"Running", OK}
            /\ Len(CtrlStack) >= 2
            /\ CtrlStack[Len(CtrlStack) - 1].IsUnreachable) =>
            /\ Len(CtrlStack') = Len(CtrlStack) - 1
            /\ Back(CtrlStack').IsUnreachable
      ]_vars

(* The `end` of a frame opened inside an unreachable frame was checked and *)
(* the enclosing frame is on top again.                                    *)
C31_Witness ==
    /\ Hist.lastOp = "checkInstr" /\ Instr.Op = "End"
    /\ Res = OK
    /\ Hist.popped \in {"If", "Block", "Loop"}
    /\ Len(CtrlStack) = 1
    /\ Back(CtrlStack).IsUnreachable

(* A drop failed at the floor of a loop opened inside an unreachable frame. *)
C31_WitnessPop ==
    /\ Hist.lastOp = "checkInstr" /\ Instr.Op = "Drop"
    /\ Res = "TypeCheckFailed"
    /\ Len(CtrlStack) = 2
    /\ Back(CtrlStack).Code = "Loop"
    /\ ~Back(CtrlStack).IsUnreachable
    /\ CtrlStack[1].IsUnreachable
    /\ Len(ValStack) = Back(CtrlStack).Height

-----------------------------------------------------------------------------
(* Branches on references: bodies with br_on_null and br_on_non_null *)

BrRefRets == {<<>>, <<I32>>, <<FuncRefNN>>, <<I32, FuncRefNN>>}

BrRefInstrs ==
    {[MkInstr(op) EXCEPT !.TargetIndex = n] :
        op \in {"Br_on_null", "Br_on_non_null"}, n \in 0..MaxLabel}
    \cup {[MkInstr("Block") EXCEPT !.BlockType = bt, !.JumpEnd = MaxJump,
                                   !.JumpElse = MaxJump] :
            bt \in {BTVal(FuncRefNN), BTVal(FuncRefNull)}}
    \cup {[MkInstr("Loop") EXCEPT !.BlockType = BTIdx(0), !.JumpEnd = MaxJump,
                                  !.JumpElse = MaxJump]}
    \cup {[MkInstr("Ref__null") EXCEPT !.ValType = v] :
            v \in {FuncRefNull, ExternRefNull}}
    \cup {MkInstr(op) : op \in {"Unreachable", "Ref__as_non_null", "I32__const",
                                "End"}}

ValidateB == Res = "Idle" /\ ValidateOf(1..MaxInstrsB, BrRefRets)

StepB == StepOver(BrRefInstrs)

NextBrRef == ValidateB \/ StepB

SpecBrRef == Init /\ [][NextBrRef]_vars

(* The frame a label of depth N names, and what a branch to it carries. *)
LabelFrame(N) == CtrlStack[Len(CtrlStack) - N]

LabelTypesAt(N) == getLabelTypes(LabelFrame(N))

(* Operands above the floor of the top frame. *)
AboveFloor == Len(ValStack) - Back(CtrlStack).Height

(* A pop from the operand stack succeeds, and what it then yields: the    *)
(* top operand, or Unknown at the floor of an unreachable frame.           *)
PopSucceeds == AboveFloor > 0 \/ Back(CtrlStack).IsUnreachable

TopOperand == IF AboveFloor > 0 THEN Back(ValStack) ELSE Unknown

(* The operand stack after n pops that all succeed: a pop at the floor of  *)
(* an unreachable frame removes nothing.                                   *)
AfterPops(n) == SubSeq(ValStack, 1, Len(ValStack) - Min(n, AboveFloor))

NonNull(v) == RefT("Ref", v.Heap, v.Idx)

Nullable(v) == RefT("RefNull", v.Heap, v.Idx)

(* A br_on_null whose label is in range was checked. *)
BrOnNullChecked ==
    /\ Hist'.lastOp = "checkInstr"
    /\ Instr'.Op = "Br_on_null"
    /\ Instr'.TargetIndex < Len(CtrlStack)

BrRefPassed == Res' \in {"Running", OK}

(* The reference cases of br_on_null: a popped non-reference is rejected   *)
(* with InvalidBrRefType; after a popped reference the label types are     *)
(* popped and pushed back, the branch metadata is written with the arity   *)
(* of the label, and the non-nullable form of the reference is on top.     *)
BrOnNullRefCases ==
    LET N == Instr'.TargetIndex
        L == LabelTypesAt(N)
        Base == AfterPops(1 + Len(L))
    IN /\ (PopSucceeds /\ TopOperand # Unknown /\ ~isRefType(TopOperand))
            => Res' = "InvalidBrRefType"
       /\ (PopSucceeds /\ TopOperand # Unknown /\ isRefType(TopOperand))
            => /\ Res' \in {"Running", OK, "TypeCheckFailed"}
               /\ BrRefPassed =>
                    /\ ValStack' = Base \o L \o <<NonNull(TopOperand)>>
                    /\ Instr'.Jump.StackEraseEnd = Len(L)
                    /\ Instr'.Jump.StackEraseBegin =
                          (Len(Base) - LabelFrame(N).Height) + Len(L)
                    /\ CtrlStack' = CtrlStack

(* C32 as stated: when the popped top is Unknown, br_on_null succeeds and  *)
(* leaves the operand stack as it was; the reference cases as above.       *)
C32_BrOnNull ==
    [][BrOnNullChecked =>
        /\ (PopSucceeds /\ TopOperand = Unknown) =>
              (BrRefPassed /\ ValStack' = ValStack)
        /\ BrOnNullRefCases
      ]_vars

(* C32: when the popped top is Unknown, br_on_null succeeds and leaves the *)
(* operand stack as it was but for an Unknown that was on it, which is     *)
(* popped; a popped non-reference fails with InvalidBrRefType; after a     *)
(* popped reference the label types are popped and pushed back, the branch *)
(* metadata has the label's arity and the new top is the non-nullable      *)
(* reference of the same heap type and type index.                         *)
C32_BrOnNullPops ==
    [][BrOnNullChecked =>
        /\ (PopSucceeds /\ TopOperand = Unknown) =>
              /\ BrRefPassed
              /\ ValStack' = AfterPops(1)
              /\ CtrlStack' = CtrlStack
        /\ BrOnNullRefCases
      ]_vars

(* br_on_null passed on a nullable reference above an i32 the label takes. *)
C32_Witness ==
    /\ Hist.lastOp = "checkInstr" /\ Instr.Op = "Br_on_null"
    /\ Res \in {"Running", OK}
    /\ Len(CtrlStack) > Instr.TargetIndex
    /\ ValStack = <<I32, FuncRefNN>>
    /\ Instr.Jump.StackEraseEnd = 1
    /\ Instr.Jump.StackEraseBegin = 1

(* br_on_null passed as the third instruction of a body and left the       *)
(* operand stack of the unreachable outermost frame empty.                 *)
C32_WitnessUnknown ==
    /\ Hist.lastOp = "checkInstr" /\ Instr.Op = "Br_on_null"
    /\ Res \in {"Running", OK}
    /\ pc = 3
    /\ Len(CtrlStack) = 1 /\ Back(CtrlStack).IsUnreachable
    /\ ValStack = <<>>

(* br_on_null failed on an i32. *)
C32_WitnessNonRef ==
    /\ Hist.lastOp = "checkInstr" /\ Instr.Op = "Br_on_null"
    /\ Res = "InvalidBrRefType"
    /\ Len(ValStack) = 0

(* A br_on_non_null whose label is in range was checked. *)
BrOnNonNullChecked ==
    /\ Hist'.lastOp = "checkInstr"
    /\ Instr'.Op = "Br_on_non_null"
    /\ Instr'.TargetIndex < Len(CtrlStack)

(* The label types end in a non-nullable reference. *)
EndsInNonNullRef(L) ==
    /\ Len(L) > 0
    /\ isRefType(Back(L))
    /\ ~isNullableRefType(Back(L))

(* C33: br_on_non_null N with N < |ctrl_stack| fails with InvalidBrRefType *)
(* when the label types are empty or do not end in a non-nullable          *)
(* reference; when it passes, the nullable form of that last label type    *)
(* and the label types before it were popped, StackEraseEnd is the number  *)
(* of label types, StackEraseBegin is that number plus the operands left   *)
(* above the target frame's Height, and only the label types before the    *)
(* reference were pushed back.                                             *)
C33_BrOnNonNull ==
    [][BrOnNonNullChecked =>
        LET N == Instr'.TargetIndex
            L == LabelTypesAt(N)
            Base == AfterPops(Len(L))
        IN /\ ~EndsInNonNullRef(L) => Res' = "InvalidBrRefType"
           /\ BrRefPassed =>
                /\ EndsInNonNullRef(L)
                /\ AboveFloor > 0 =>
                      \/ Back(ValStack) = Unknown
                      \/ matchType(Nullable(Back(L)), Back(ValStack))
                /\ ValStack' = Base \o PopBack(L)
                /\ Instr'.Jump.StackEraseEnd = Len(L)
                /\ Instr'.Jump.StackEraseBegin =
                      (Len(Base) - LabelFrame(N).Height) + Len(L)
                /\ CtrlStack' = CtrlStack
      ]_vars

(* br_on_non_null passed on a nullable funcref above an i32, for a label   *)
(* that takes an i32 and a non-nullable funcref: the i32 alone is left.    *)
C33_Witness ==
    /\ Hist.lastOp = "checkInstr" /\ Instr.Op = "Br_on_non_null"
    /\ Res \in {"Running", OK}
    /\ Len(CtrlStack) > Instr.TargetIndex
    /\ getLabelTypes(CtrlStack[Len(CtrlStack) - Instr.TargetIndex])
          = <<I32, FuncRefNN>>
    /\ Len(CtrlStack) = 1 /\ ~Back(CtrlStack).IsUnreachable
    /\ ValStack = <<I32>>
    /\ Instr.Jump.StackEraseEnd = 2
    /\ Instr.Jump.StackEraseBegin = 2

(* br_on_non_null failed on a label that carries nothing. *)
C33_WitnessEmpty ==
    /\ Hist.lastOp = "checkInstr" /\ Instr.Op = "Br_on_non_null"
    /\ Res = "InvalidBrRefType"
    /\ Len(CtrlStack) > Instr.TargetIndex
    /\ getLabelTypes(CtrlStack[Len(CtrlStack) - Instr.TargetIndex]) = <<>>

(* br_on_non_null failed on a label that ends in a nullable reference,     *)
(* with a nullable reference on the stack.                                 *)
C33_WitnessNullable ==
    /\ Hist.lastOp = "checkInstr" /\ Instr.Op = "Br_on_non_null"
    /\ Res = "InvalidBrRefType"
    /\ Len(CtrlStack) > Instr.TargetIndex
    /\ getLabelTypes(CtrlStack[Len(CtrlStack) - Instr.TargetIndex])
          = <<FuncRefNull>>
    /\ Len(ValStack) > 0 /\ Back(ValStack) = FuncRefNull

-----------------------------------------------------------------------------
(* Function-type index immediates: bodies whose instructions name a type *)

TypeIdxOps == {"Call_indirect", "Return_call_indirect", "Call_ref",
               "Return_call_ref"}

TypeIdxs == 0..MaxTypeIdxY

TypeIdxInstrs ==
    {[MkInstr(op) EXCEPT !.TargetIndex = n] : op \in TypeIdxOps, n \in TypeIdxs}
    \cup {[MkInstr(op) EXCEPT !.BlockType = BTIdx(n), !.JumpEnd = MaxJump,
                              !.JumpElse = 1] :
             op \in {"Block", "Loop", "If"}, n \in TypeIdxs}
    \cup {[MkInstr("Ref__null") EXCEPT !.ValType = RefIdxNull(0)]}
    \cup {MkInstr(op) : op \in {"End", "I32__const"}}

AddTableY == Tables = <<>> /\ AddTable

ValidateY == Res = "Idle" /\ ValidateOf(1..MaxInstrsY, {<<I32>>})

StepY == StepOver(TypeIdxInstrs)

NextTypeIdx == AddTableY \/ ValidateY \/ StepY

SpecTypeIdx == Init /\ [][NextTypeIdx]_vars

(* The function-type index an instruction carries, -1 when it has none. *)
TypeIdxOf(I) ==
    IF I.Op \in TypeIdxOps THEN I.TargetIndex
    ELSE IF I.Op \in {"Block", "Loop", "If"} /\ I.BlockType.Kind = "TypeIndex"
         THEN I.BlockType.Idx
    ELSE -1

(* The checks made before the type index is looked at have passed: the     *)
(* table of an indirect call is there and holds function references.       *)
TypeIdxLookedAt(I) ==
    I.Op \in {"Call_indirect", "Return_call_indirect"} =>
        /\ I.SourceIndex < Len(Tables)
        /\ isFuncRefType(Tables[I.SourceIndex + 1])

TypeIdxChecked(ops) ==
    /\ Hist'.lastOp = "checkInstr"
    /\ Instr'.Op \in ops
    /\ TypeIdxOf(Instr') >= Len(Types)
    /\ TypeIdxLookedAt(Instr')

(* C34: a function-type index that is not below |Types| is reported as     *)
(* InvalidFuncTypeIdx by block, loop, if, call_indirect,                   *)
(* return_call_indirect, call_ref and return_call_ref.                     *)
C34_TypeIdxKind ==
    [][TypeIdxChecked(TypeIdxOps \cup {"Block", "Loop", "If"}) =>
          Res' = "InvalidFuncTypeIdx"]_vars

(* The same of every one of these instructions but return_call_ref. *)
C34_TypeIdxKind_Others ==
    [][TypeIdxChecked((TypeIdxOps \ {"Return_call_ref"})
                      \cup {"Block", "Loop", "If"}) =>
          /\ Res' = "InvalidFuncTypeIdx"
          /\ ValStack' = ValStack /\ CtrlStack' = CtrlStack]_vars

(* return_call_ref of a type index that is not below |Types| is reported   *)
(* as InvalidFuncIdx.                                                      *)
C34_ReturnCallRefKind ==
    [][TypeIdxChecked({"Return_call_ref"}) => Res' = "InvalidFuncIdx"]_vars

(* call_indirect through a table was rejected for its type index. *)
C34_Witness ==
    /\ Hist.lastOp = "checkInstr" /\ Instr.Op = "Call_indirect"
    /\ Len(Tables) = 1
    /\ Instr.TargetIndex >= Len(Types)
    /\ Res = "InvalidFuncTypeIdx"

(* return_call_ref was rejected for its type index. *)
C34_WitnessRef ==
    /\ Hist.lastOp = "checkInstr" /\ Instr.Op = "Return_call_ref"
    /\ Instr.TargetIndex >= Len(Types)
    /\ Res = "InvalidFuncIdx"

-----------------------------------------------------------------------------
(* Frame bounds: bodies with blocks, branches and local initialisations *)

FrameInstrs ==
    {[MkInstr(op) EXCEPT !.BlockType = bt, !.JumpEnd = MaxJump, !.JumpElse = 1] :
        op \in {"Block", "Loop", "If"}, bt \in {BTEmpty, BTIdx(0)}}
    \cup {[MkInstr(op) EXCEPT !.Jump = JumpDesc(n)] :
             op \in {"Br", "Br_if"}, n \in 0..MaxLabel}
    \cup {[MkInstr(op) EXCEPT !.TargetIndex = 0] :
             op \in {"Local__set", "Ref__func"}}
    \cup {MkInstr(op) : op \in {"Else", "End", "I32__const", "Unreachable"}}

(* One local of a type without a default value: it is not initialised     *)
(* until a local.set is checked.                                           *)
AddLocalQ == Locals = <<>> /\ AddLocalOf({<<RefIdxNN(0), FALSE>>})

ValidateQ == Res = "Idle" /\ ValidateOf(1..MaxInstrsQ, {<<>>, <<I32>>})

StepQ == StepOver(FrameInstrs)

NextFrames == AddLocalQ \/ ValidateQ \/ StepQ

SpecFrames == Init /\ [][NextFrames]_vars

(* Heights and watermarks do not decrease from the bottom of the control   *)
(* stack to its top; the top frame's Height is at most the size of the     *)
(* operand stack and its watermark at most the length of LocalInits.       *)
FramesOrdered ==
    /\ \A k \in 1..(Len(CtrlStack) - 1) :
          /\ CtrlStack[k].Height <= CtrlStack[k + 1].Height
          /\ CtrlStack[k].InitedLocal <= CtrlStack[k + 1].InitedLocal
    /\ Len(CtrlStack) > 0 =>
          /\ Back(CtrlStack).Height <= Len(ValStack)
          /\ Back(CtrlStack).InitedLocal <= Len(LocalInits)

(* C35: while a body is validated the Heights and the local-init           *)
(* watermarks of the control frames do not decrease from bottom to top and *)
(* no watermark is beyond the end of LocalInits (the state before and the  *)
(* state after every checked instruction); so the operands a branch counts *)
(* above its target frame are never fewer than none, and a frame that is   *)
(* popped cuts LocalInits at a position inside it.                         *)
C35_FramesOrdered ==
    [][Hist'.lastOp = "checkInstr" =>
        /\ FramesOrdered
        /\ FramesOrdered'
        /\ (Instr'.Op \in {"Br", "Br_if"} /\ Res' \in {"Running", OK}) =>
              /\ Instr'.Jump.StackEraseBegin >= Instr'.Jump.StackEraseEnd
              /\ Instr'.Jump.StackEraseBegin - Instr'.Jump.StackEraseEnd
                    <= Len(ValStack)
        /\ (Instr'.Op \in {"End", "Else"} /\ Res' \in {"Running", OK}) =>
              /\ Back(CtrlStack).InitedLocal <= Len(LocalInits)
              /\ LocalInits' = SubSeq(LocalInits, 1, Back(CtrlStack).InitedLocal)
      ]_vars

(* A branch out of a block passed with an operand left above the frame it  *)
(* targets, after a local was initialised inside the block.                *)
C35_Witness ==
    /\ Hist.lastOp = "checkInstr" /\ Instr.Op \in {"Br", "Br_if"}
    /\ Res \in {"Running", OK}
    /\ Instr.Jump.TargetIndex = 1
    /\ Instr.Jump.StackEraseBegin = 1 /\ Instr.Jump.StackEraseEnd = 0
    /\ Len(CtrlStack) = 2
    /\ Back(CtrlStack).Height = 1
    /\ Back(CtrlStack).InitedLocal = 0
    /\ Len(LocalInits) = 1

(* The end of a block cut LocalInits back to the block's watermark. *)
C35_WitnessCut ==
    /\ Hist.lastOp = "checkInstr" /\ Instr.Op = "End"
    /\ Res \in {"Running", OK}
    /\ Hist.popped = "Block"
    /\ Hist.pop.mark = 0 /\ Len(Hist.pop.log) = 1
    /\ LocalInits = <<>>

-----------------------------------------------------------------------------
(* The local-init log (locals specification) *)

LoggedLocals == {LocalInits[i] : i \in 1..Len(LocalInits)}

(* C36: on a checker that was given its locals by addLocal and then one    *)
(* body by validate, LocalInits holds in every state exactly the indices   *)
(* of the locals whose IsInit is set, and none of them twice.              *)
C36_LogIsInitSet ==
    /\ LoggedLocals = InitSet(Locals)
    /\ \A i \in 1..Len(LocalInits), j \in 1..Len(LocalInits) :
          LocalInits[i] = LocalInits[j] => i = j

(* A local.set inside a block initialised the second local, after the      *)
(* first was recorded when it was added.                                   *)
C36_Witness ==
    /\ Hist.lastOp = "checkInstr" /\ Instr.Op = "Local__set"
    /\ Res = "Running"
    /\ Len(CtrlStack) = 2
    /\ LocalInits = <<0, 1>>
    /\ Back(CtrlStack).InitedLocal = 1
    /\ Locals[1].IsInit /\ Locals[2].IsInit

(* The end of a block took the second local's initialisation back. *)
C36_WitnessReverted ==
    /\ Hist.lastOp = "checkInstr" /\ Instr.Op = "End"
    /\ Res \in {"Running", OK}
    /\ Hist.popped = "Block"
    /\ Hist.pop.log = <<0, 1>>
    /\ LocalInits = <<0>>
    /\ Locals[1].IsInit /\ ~Locals[2].IsInit

-----------------------------------------------------------------------------
(* The frame an else is checked on (else specification) *)

ElseChecked ==
    /\ Hist'.lastOp = "checkInstr"
    /\ Instr'.Op = "Else"
    /\ Len(CtrlStack) > 0

(* C37: an else checked while the top frame was not opened by an if (a     *)
(* block, a loop, an else arm or the outermost frame) is rejected.         *)
C37_ElseOnlyInIf ==
    [][(ElseChecked /\ Back(CtrlStack).Code # "If") =>
          Res' \notin {"Running", OK}]_vars

(* What the else does is the same whatever opened the top frame: it passes *)
(* exactly when the frame's EndTypes are what is above its Height, and the *)
(* frame it pushes has the opcode Else.                                    *)
C37_ElseIgnoresOpcode ==
    [][ElseChecked =>
          LET F == Back(CtrlStack)
              AsIf == [Enter(Instr', NoFrame) EXCEPT
                          !.ins = MkInstr("Else"),
                          !.cs[Len(CtrlStack)].Code = "If"]
          IN /\ (Res' \in {"Running", OK}) = (checkInstr(AsIf, pc).err = OK)
             /\ Res' \in {"Running", OK} =>
                   /\ Back(CtrlStack').Code = "Else"
                   /\ ValStack' = checkInstr(AsIf, pc).vs]_vars

(* An else passed on a frame opened by a block. *)
C37_WitnessBlock ==
    /\ Hist.lastOp = "checkInstr" /\ Instr.Op = "Else"
    /\ Res \in {"Running", OK}
    /\ Hist.popped = "Block"
    /\ Len(CtrlStack) = 2
    /\ Back(CtrlStack).Code = "Else"

(* An else passed on the outermost frame. *)
C37_WitnessOuter ==
    /\ Hist.lastOp = "checkInstr" /\ Instr.Op = "Else"
    /\ Res \in {"Running", OK}
    /\ Hist.popped = OuterCode
    /\ Len(CtrlStack) = 1
    /\ Back(CtrlStack).Code = "Else"

-----------------------------------------------------------------------------
(* Reads of the top frame (control specification) *)

(* An instruction was checked with no frame on the control stack. *)
CheckedUnframed ==
    /\ Hist'.lastOp = "checkInstr"
    /\ Len(CtrlStack) = 0

(* C38: no checked instruction reads the top control frame while the       *)
(* control stack is empty, in bodies that go on after the `end` of the     *)
(* outermost frame as well; an instruction checked on an empty control     *)
(* stack that needs a frame fails with an error.                           *)
C38_NoFrameNoRead ==
    [][CheckedUnframed =>
          /\ ~Hist'.ubRead
          /\ Instr'.Op \notin {"I32__const", "Ref__null", "If", "Block", "Loop"}
                => Res' \notin {"Running", OK}]_vars

(* The instructions that test the control stack before they use a frame:   *)
(* end and else fail in popCtrl with TypeCheckFailed, a branch with a      *)
(* label fails its depth check with InvalidLabelIdx, none reads a frame.   *)
C38_GuardedReads ==
    [][CheckedUnframed =>
          /\ Instr'.Op \in {"End", "Else"} =>
                (~Hist'.ubRead /\ Res' = "TypeCheckFailed")
          /\ Instr'.Op \in {"Br", "Br_if", "Br_on_null", "Br_on_non_null"} =>
                (~Hist'.ubRead /\ Res' = "InvalidLabelIdx")
          /\ (ValStack' # ValStack \/ CtrlStack' # CtrlStack) =>
                \/ Hist'.ubRead
                \/ Instr'.Op \in {"I32__const", "Ref__null", "If", "Block", "Loop"}]_vars

(* A drop that followed the `end` of the outermost frame read the top      *)
(* frame of the empty control stack and passed.                            *)
C38_WitnessRead ==
    /\ Hist.lastOp = "checkInstr" /\ Instr.Op = "Drop"
    /\ Hist.ubRead
    /\ CtrlStack = <<>>
    /\ Res \in {"Running", OK}

-----------------------------------------------------------------------------
(* Declared references: add_type, add_func and add_ref on a fresh checker *)

AddRefG ==
    \E FuncIdx \in 0..MaxTypeIdxF : AddCallF(addRef(FuncIdx), "addRef")

RefFuncInstrs ==
    {MkInstr("End")}
    \cup {[MkInstr("Ref__func") EXCEPT !.TargetIndex = f] :
             f \in 0..(MaxTypeIdxF + 1)}

ValidateG == Res = "Idle" /\ ValidateOf(1..MaxInstrsG, {<<>>})

StepG == StepOver(RefFuncInstrs)

NextRefs == AddTypeF \/ AddFuncF \/ AddRefG \/ ValidateG \/ StepG

SpecRefs == InitFresh /\ [][NextRefs]_vars

RefFuncChecked ==
    /\ Hist'.lastOp = "checkInstr"
    /\ Instr'.Op = "Ref__func"

(* C39: ref.func f fails with InvalidRefIdx exactly when f is not in Refs; *)
(* and on every checker built by addType, addFunc and addRef calls, when f *)
(* is in Refs then f < |Funcs| and Funcs[f] < |Types|, and the             *)
(* non-nullable reference to the type Funcs[f] is pushed.                  *)
C39_RefFunc ==
    [][RefFuncChecked =>
          LET f == Instr'.TargetIndex
          IN /\ (Res' = "InvalidRefIdx") = (f \notin Refs)
             /\ f \in Refs =>
                   /\ f < Len(Funcs)
                   /\ Funcs[f + 1] < Len(Types)
                   /\ Res' \in {"Running", OK}
                   /\ ValStack' = Append(ValStack, RefIdxNN(Funcs[f + 1]))]_vars

(* The same for declared references that name an entry of Funcs. *)
C39_RefFunc_InFuncs ==
    [][RefFuncChecked =>
          LET f == Instr'.TargetIndex
          IN /\ (Res' = "InvalidRefIdx") = (f \notin Refs)
             /\ (f \in Refs /\ f < Len(Funcs)) =>
                   /\ Funcs[f + 1] < Len(Types)
                   /\ Res' \in {"Running", OK}
                   /\ ValStack' = Append(ValStack, RefIdxNN(Funcs[f + 1]))
                   /\ CtrlStack' = CtrlStack]_vars

(* ref.func passed on a declared function. *)
C39_Witness ==
    /\ Hist.lastOp = "checkInstr" /\ Instr.Op = "Ref__func"
    /\ Res \in {"Running", OK}
    /\ Instr.TargetIndex \in Refs
    /\ Len(ValStack) > 0 /\ Back(ValStack) = RefIdxNN(0)

(* ref.func was checked on a declared index that names no function. *)
C39_WitnessNoFunc ==
    /\ Hist.lastOp = "checkInstr" /\ Instr.Op = "Ref__func"
    /\ Instr.TargetIndex \in Refs
    /\ Instr.TargetIndex >= Len(Funcs)

=============================================================================
